---- MODULE Spec2Model ----
(***************************************************************************)
(* Model of the proximity-search / cache layer of gudong-backend:          *)
(* the relational store (groups, group_members, user_activities,           *)
(* user_locations, users), the Redis key space (entity snapshots, query    *)
(* result sets, geo indexes, rate-limit counters) and the request          *)
(* handlers that read and write both.  Every handler is a sequence of      *)
(* steps, one per await point, run by a process of Procs.                  *)
(*                                                                         *)
(* Coordinates are latitudes in thousandths of a degree on one meridian    *)
(* (all longitudes equal), where the Haversine formula reduces to          *)
(* EARTH_RADIUS * |delta latitude in radians|.  Time is in seconds.        *)
(***************************************************************************)
EXTENDS Integers, Sequences, FiniteSets, TLC

VARIABLES
    now,            \* wall clock, seconds
    member_count,   \* groups.member_count, per group
    group_members,  \* number of group_members rows per <<group, user>>
    groupIdCache,   \* Redis keys group:id:<id>: snapshot with its expiry
    lastCommit,     \* ghost: time of the last committed membership mutation of a
                    \* group, and whether its DEL of group:id:<id> has been done
    user_activities,\* user_activities rows, newest created_at first
    user_locations, \* user_locations rows (one per user), newest updated_at first
    activitySeq,    \* number of activity ids issued so far
    resultCache,    \* Redis result-set keys <prefix>:<lat>:<lon>:<radius>[:<limit>]
    nickname,       \* users.nickname
    userInfoCache,  \* Redis keys user:info:<id>
    rateLimit,      \* Redis key rate_limit:<ip> of the one client address, and (ghost)
                    \* the number of requests forwarded since the key appeared
    groups,         \* groups rows: id and latitude
    geoIndex,       \* Redis geo set groups:geo: member positions and the key's expiry
    indexed,        \* ghost: the groups a cache_group call has completed for
    entityGeo,      \* Redis geo sets users:geo and activities:geo: member positions
    entityCache,    \* Redis keys user:<id> and activity:<id>: snapshot with its expiry
    cachedLatitude, \* the latitude field of the snapshot under group:id:<id>
    messages,       \* messages rows of the group, newest created_at first
    messageCache,   \* Redis keys msg:group:<id>: the cached latest messages
    sessionCache,   \* Redis keys session:<id>
    sessionRemoved, \* (ghost) remove_session has completed and no caller has called
                    \* cache_session for the session since
    pc,             \* position of each process inside its handler
    loc             \* locals of the handler each process runs

GroupVars == <<member_count, group_members, groupIdCache, lastCommit>>
NearbyVars == <<user_activities, user_locations, activitySeq, resultCache>>
UserVars == <<nickname, userInfoCache>>
RateVars == <<rateLimit>>
GeoVars == <<groups, geoIndex, indexed>>
IndexVars == <<entityGeo, entityCache>>
SessionVars == <<sessionCache, sessionRemoved>>
SideVars == <<cachedLatitude, messages, messageCache, SessionVars>>

vars == <<now, GroupVars, NearbyVars, UserVars, RateVars, GeoVars, IndexVars, SideVars,
          pc, loc>>

\* what no step of the group handlers touches
NotGroup == <<NearbyVars, UserVars, RateVars, GeoVars, IndexVars, SideVars>>

-----------------------------------------------------------------------------
(* Bounds of the model *)

GroupTick == 200
GroupMaxTime == 800
MaxCount == 2
GeoTick == 400
GeoMaxTime == 800
MaxActivities == 1
MaxMessages == 2           \* rows of the messages table
NearbyTick == 60
NearbyMaxTime == 120
TtlTick == 50
TtlMaxTime == 150
rate_limit_requests == 2  \* RATE_LIMIT_REQUESTS of the deployment
CrowdSize == 21           \* rows of the largest table explored
Longitude == 116410       \* the meridian of every point, thousandths of a degree

\* Option<T>: None is the empty tuple, Some(x) the tuple of x
None == << >>
Some(x) == <<x>>

(* Program constants *)

GROUP_CACHE_EXPIRE == 600
CACHE_EXPIRE == 120
EARTH_RADIUS == 6371000
SUCCESS == 0
VALIDATION_ERROR == 1000
RATE_LIMIT == 1005
INTERNAL_ERROR == 5000
max_search_radius == 5000
USER_INFO_EXPIRE == 3600
rate_limit_window == 60

Groups == {"g1"}
Users == {"u0", "u1"}      \* u0 created the group and stays in it
Callers == {"u1"}          \* the users whose requests are explored
Procs == {"p1", "p2"}
QueryLats == {None, Some(39996), Some(40004)}
GroupQueryLats == {Some(39996), Some(40004)}
GeoLats == {39996, 40004}
GeoRadii == {500}
PointLats == {None, Some(40000), Some(91000)}   \* absent, valid, beyond the pole
PointRadii == {None, Some(500), Some(6000)}
PointLimits == {None, Some(1)}
GeoRadiiKm == {1}          \* radii given to the geo sets that are asked in km
MutLats == {Some(40120)}
EntityLats == {40000, 40008}
Radii == {Some(500)}
Limits == {None}
Nicknames == {"x", "al"}
Sessions == {"s1"}
ActivityIds == <<"a1", "a2", "a3", "a4">>
Kinds == {"user", "activity"}   \* the entity kinds with a geo set of their own
Readers == {"p1"}          \* in the timed races: the worker serving reads
Writers == {"p2"}          \* in the timed races: the worker serving mutations

NoEntry == [val |-> -1, setAt |-> -1, exp |-> -1]
MESSAGE_CACHE_EXPIRE == 300
MessageLimits == {None, Some(1), Some(-2), Some(200)}
MessageIds == {None, Some(1)}
SessionTtls == {100}
Never == [at |-> -1, invalidated |-> FALSE]

NoResponse == [status |-> -1, code |-> -1, resp_data |-> None]

Idle0 ==
    [op |-> "none", g |-> "none", u |-> "none", val |-> -1, outcome |-> "none",
     seen |-> -1, late |-> FALSE,
     tx |-> [dr |-> 0, dm |-> 0], committed |-> FALSE, stmts |-> 0,
     ops |-> {}, cacheFailed |-> FALSE,
     lat |-> 0, radius |-> 0, limit |-> 0, list |-> << >>, gone |-> {},
     storeFailed |-> FALSE, resp |-> NoResponse, id |-> "none", name |-> "",
     age |-> -1, todo |-> << >>, route |-> "none", kind |-> "none",
     requested |-> None, wasIndexed |-> FALSE, computedAt |-> -1, sinceQuery |-> -1,
     message_id |-> None, s |-> "none", ttl |-> 0, session |-> None]

-----------------------------------------------------------------------------
(* Redis string keys with a TTL *)

Alive(e) == e.exp # -1 /\ now < e.exp

SetEx(v, ttl) == [val |-> v, setAt |-> now, exp |-> now + ttl]

Expire(cache, t) == [k \in DOMAIN cache |-> IF cache[k].exp # -1 /\ cache[k].exp <= t
                                             THEN NoEntry ELSE cache[k]]

-----------------------------------------------------------------------------
(* Process plumbing *)

Goto(p, label) == pc' = [pc EXCEPT ![p] = label]

Finish(p, outcome, l) ==
    /\ pc' = [pc EXCEPT ![p] = "done"]
    /\ loc' = [loc EXCEPT ![p] = [l EXCEPT !.outcome = outcome, !.tx = Idle0.tx]]

StoreUnchanged == UNCHANGED <<member_count, group_members, lastCommit, NotGroup>>

\* The handler has returned; the response is dropped and the worker is free.
Return(p) ==
    /\ pc[p] = "done"
    /\ pc' = [pc EXCEPT ![p] = "idle"]
    /\ loc' = [loc EXCEPT ![p] = Idle0]
    /\ UNCHANGED <<now, GroupVars, NearbyVars, UserVars, RateVars, GeoVars, IndexVars, SideVars>>

-----------------------------------------------------------------------------
(* Group::find_by_id: cache-aside read of group:id:<id> *)

StartFindById(p) ==
    /\ pc[p] = "idle"
    /\ \E g \in Groups :
        loc' = [loc EXCEPT ![p] = [Idle0 EXCEPT !.op = "find_by_id", !.g = g,
                    !.seen = lastCommit[g].at,
                    !.late = (lastCommit[g].invalidated
                              /\ now > lastCommit[g].at + GROUP_CACHE_EXPIRE)]]
    /\ Goto(p, "find_get")
    /\ UNCHANGED <<now, groupIdCache>>
    /\ StoreUnchanged

\* a cache failure is swallowed; it is remembered only inside a mutation
CacheFail(p) == IF loc[p].op = "find_by_id" THEN loc[p]
                ELSE [loc[p] EXCEPT !.cacheFailed = TRUE]

\* a cache command issued by a mutation, with whether its store write had committed
Issued(p, kind, by) ==
    IF loc[p].op = "find_by_id" THEN loc[p]
    ELSE [loc[p] EXCEPT !.ops = @ \cup {[kind |-> kind, by |-> by,
                                         afterCommit |-> loc[p].committed]}]

FindGet(p) ==
    /\ pc[p] = "find_get"
    /\ \/ /\ Alive(groupIdCache[loc[p].g])
          /\ IF loc[p].op = "join"
             THEN /\ loc' = [loc EXCEPT ![p].val = groupIdCache[loc[p].g].val]
                  /\ Goto(p, "join_exists")
             ELSE Finish(p, "ok", [loc[p] EXCEPT !.val = groupIdCache[loc[p].g].val,
                                     !.age = now - groupIdCache[loc[p].g].setAt])
       \/ /\ ~Alive(groupIdCache[loc[p].g])
          /\ Goto(p, "find_select")
          /\ UNCHANGED loc
       \/ \* the Redis connection or the GET fails: fall through to the store
          /\ Goto(p, "find_select")
          /\ loc' = [loc EXCEPT ![p] = CacheFail(p)]
    /\ UNCHANGED <<now, groupIdCache>>
    /\ StoreUnchanged

FindSelect(p) ==
    /\ pc[p] = "find_select"
    /\ \/ /\ loc' = [loc EXCEPT ![p].val = member_count[loc[p].g]]
          /\ Goto(p, "find_set")
       \/ Finish(p, "err", loc[p])
    /\ UNCHANGED <<now, groupIdCache>>
    /\ StoreUnchanged

\* groups.latitude of the row of group g
RowLatitude(g) == groups[CHOOSE i \in 1..Len(groups) : groups[i].id = g].lat

FindSet(p) ==
    /\ pc[p] = "find_set"
    /\ \E ok \in BOOLEAN :
        LET l == IF ok THEN Issued(p, "SET", "find_by_id") ELSE CacheFail(p) IN
        /\ groupIdCache' = IF ok THEN [groupIdCache EXCEPT
                                ![loc[p].g] = SetEx(loc[p].val, GROUP_CACHE_EXPIRE)]
                           ELSE groupIdCache
        /\ cachedLatitude' = IF ok THEN [cachedLatitude EXCEPT
                                  ![loc[p].g] = RowLatitude(loc[p].g)]
                             ELSE cachedLatitude
        /\ IF loc[p].op = "join"
           THEN loc' = [loc EXCEPT ![p] = l] /\ Goto(p, "join_exists")
           ELSE Finish(p, "ok", l)
    /\ UNCHANGED <<now, member_count, group_members, lastCommit, NearbyVars, UserVars,
                   RateVars, GeoVars, IndexVars, messages, messageCache, SessionVars>>

-----------------------------------------------------------------------------
(* The store: group_members rows and groups.member_count *)

IsMember(g, u) == group_members[<<g, u>>] > 0

\* the statements of a transaction become visible together, at COMMIT
ApplyTx(p) ==
    /\ group_members' = [group_members EXCEPT ![<<loc[p].g, loc[p].u>>] =
                            IF @ + loc[p].tx.dr < 0 THEN 0 ELSE @ + loc[p].tx.dr]
    /\ member_count' = [member_count EXCEPT ![loc[p].g] = @ + loc[p].tx.dm]
    /\ lastCommit' = [lastCommit EXCEPT ![loc[p].g] = [at |-> now, invalidated |-> FALSE]]
    /\ UNCHANGED NotGroup

\* the counters of a group are inside the explored range
InRange(g) ==
    /\ member_count[g] \in 0..MaxCount
    /\ \A u \in Users : group_members[<<g, u>>] <= MaxCount

StartMutation(p, op) ==
    /\ pc[p] = "idle"
    /\ \E g \in Groups, u \in Callers :
        /\ InRange(g)
        /\ loc' = [loc EXCEPT ![p] = [Idle0 EXCEPT !.op = op, !.g = g, !.u = u]]
    /\ UNCHANGED <<now, groupIdCache>>
    /\ StoreUnchanged

-----------------------------------------------------------------------------
(* Group::join: find_by_id, membership check, then INSERT and UPDATE in one *)
(* transaction, then DEL group:id:<id>                                       *)

StartJoin(p) == StartMutation(p, "join") /\ Goto(p, "find_get")

JoinExists(p) ==
    /\ pc[p] = "join_exists"
    /\ \/ /\ IsMember(loc[p].g, loc[p].u)
          /\ Finish(p, "ok", loc[p])
       \/ /\ ~IsMember(loc[p].g, loc[p].u)
          /\ Goto(p, "join_begin")
          /\ UNCHANGED loc
       \/ Finish(p, "err", loc[p])
    /\ UNCHANGED <<now, groupIdCache>>
    /\ StoreUnchanged

JoinBegin(p) ==
    /\ pc[p] = "join_begin"
    /\ \/ Goto(p, "join_insert") /\ UNCHANGED loc
       \/ Finish(p, "err", loc[p])
    /\ UNCHANGED <<now, groupIdCache>>
    /\ StoreUnchanged

JoinInsert(p) ==
    /\ pc[p] = "join_insert"
    /\ \/ /\ loc' = [loc EXCEPT ![p].tx.dr = @ + 1]
          /\ Goto(p, "join_update")
       \/ Finish(p, "err", loc[p])
    /\ UNCHANGED <<now, groupIdCache>>
    /\ StoreUnchanged

\* a join that would drop group:id:<id> inside the open transaction
JoinUpdate_invalidate_first(p) ==
    /\ pc[p] = "join_update"
    /\ \/ /\ loc' = [loc EXCEPT ![p] = [Issued(p, "DEL", "join") EXCEPT !.tx.dm = @ + 1]]
          /\ groupIdCache' = [groupIdCache EXCEPT ![loc[p].g] = NoEntry]
          /\ Goto(p, "join_commit")
       \/ /\ Finish(p, "err", loc[p])
          /\ UNCHANGED groupIdCache
    /\ UNCHANGED now
    /\ StoreUnchanged

JoinUpdate(p) ==
    /\ pc[p] = "join_update"
    /\ \/ /\ loc' = [loc EXCEPT ![p].tx.dm = @ + 1]
          /\ Goto(p, "join_commit")
       \/ Finish(p, "err", loc[p])
    /\ UNCHANGED <<now, groupIdCache>>
    /\ StoreUnchanged

JoinCommit(p) ==
    /\ pc[p] = "join_commit"
    /\ \/ /\ ApplyTx(p)
          /\ loc' = [loc EXCEPT ![p].committed = TRUE, ![p].stmts = 2]
          /\ Goto(p, "join_invalidate")
       \/ /\ Finish(p, "err", loc[p])
          /\ StoreUnchanged
    /\ UNCHANGED <<now, groupIdCache>>

\* a join that would return the Redis error of its DEL
JoinInvalidate_propagate(p) ==
    /\ pc[p] = "join_invalidate"
    /\ \/ /\ groupIdCache' = [groupIdCache EXCEPT ![loc[p].g] = NoEntry]
          /\ lastCommit' = [lastCommit EXCEPT ![loc[p].g].invalidated = TRUE]
          /\ Finish(p, "ok", Issued(p, "DEL", "join"))
       \/ /\ UNCHANGED <<groupIdCache, lastCommit>>
          /\ Finish(p, "err", CacheFail(p))
    /\ UNCHANGED <<now, member_count, group_members, NotGroup>>

JoinInvalidate(p) ==
    /\ pc[p] = "join_invalidate"
    /\ \/ /\ groupIdCache' = [groupIdCache EXCEPT ![loc[p].g] = NoEntry]
          /\ lastCommit' = [lastCommit EXCEPT ![loc[p].g].invalidated = TRUE]
          /\ Finish(p, "ok", Issued(p, "DEL", "join"))
       \/ \* no connection, or the DEL fails: the result is discarded
          /\ UNCHANGED <<groupIdCache, lastCommit>>
          /\ Finish(p, "ok", CacheFail(p))
    /\ UNCHANGED <<now, member_count, group_members, NotGroup>>

-----------------------------------------------------------------------------
(* Group::leave: membership check, then DELETE and UPDATE in one            *)
(* transaction, then DEL group:id:<id>                                       *)

StartLeave(p) == StartMutation(p, "leave") /\ Goto(p, "leave_exists")

LeaveExists(p) ==
    /\ pc[p] = "leave_exists"
    /\ \/ /\ ~IsMember(loc[p].g, loc[p].u)
          /\ Finish(p, "err", loc[p])
       \/ /\ IsMember(loc[p].g, loc[p].u)
          /\ Goto(p, "leave_begin")
          /\ UNCHANGED loc
       \/ Finish(p, "err", loc[p])
    /\ UNCHANGED <<now, groupIdCache>>
    /\ StoreUnchanged

LeaveBegin(p) ==
    /\ pc[p] = "leave_begin"
    /\ \/ Goto(p, "leave_delete") /\ UNCHANGED loc
       \/ Finish(p, "err", loc[p])
    /\ UNCHANGED <<now, groupIdCache>>
    /\ StoreUnchanged

LeaveDelete(p) ==
    /\ pc[p] = "leave_delete"
    /\ \/ /\ loc' = [loc EXCEPT ![p].tx.dr = @ - group_members[<<loc[p].g, loc[p].u>>]]
          /\ Goto(p, "leave_update")
       \/ Finish(p, "err", loc[p])
    /\ UNCHANGED <<now, groupIdCache>>
    /\ StoreUnchanged

LeaveUpdate(p) ==
    /\ pc[p] = "leave_update"
    /\ \/ /\ loc' = [loc EXCEPT ![p].tx.dm = @ - 1]
          /\ Goto(p, "leave_commit")
       \/ Finish(p, "err", loc[p])
    /\ UNCHANGED <<now, groupIdCache>>
    /\ StoreUnchanged

LeaveCommit(p) ==
    /\ pc[p] = "leave_commit"
    /\ \/ /\ ApplyTx(p)
          /\ loc' = [loc EXCEPT ![p].committed = TRUE, ![p].stmts = 2]
          /\ Goto(p, "leave_invalidate")
       \/ /\ Finish(p, "err", loc[p])
          /\ StoreUnchanged
    /\ UNCHANGED <<now, groupIdCache>>

LeaveInvalidate(p) ==
    /\ pc[p] = "leave_invalidate"
    /\ \/ /\ groupIdCache' = [groupIdCache EXCEPT ![loc[p].g] = NoEntry]
          /\ lastCommit' = [lastCommit EXCEPT ![loc[p].g].invalidated = TRUE]
          /\ Finish(p, "ok", Issued(p, "DEL", "leave"))
       \/ \* no connection, or the DEL fails: the result is discarded
          /\ UNCHANGED <<groupIdCache, lastCommit>>
          /\ Finish(p, "ok", CacheFail(p))
    /\ UNCHANGED <<now, member_count, group_members, NotGroup>>

-----------------------------------------------------------------------------
(* GroupOperation::add_user: the same two statements, each run on the pool  *)
(* by itself                                                                 *)

StartAddUser(p) == StartMutation(p, "add_user") /\ Goto(p, "au_find")

AddUserFind(p) ==
    /\ pc[p] = "au_find"
    /\ \/ Goto(p, "au_has_user") /\ UNCHANGED loc
       \/ Finish(p, "err", loc[p])
    /\ UNCHANGED <<now, groupIdCache>>
    /\ StoreUnchanged

AddUserHasUser(p) ==
    /\ pc[p] = "au_has_user"
    /\ \/ /\ IsMember(loc[p].g, loc[p].u)
          /\ Goto(p, "au_touch")
          /\ UNCHANGED loc
       \/ /\ ~IsMember(loc[p].g, loc[p].u)
          /\ Goto(p, "au_insert")
          /\ UNCHANGED loc
       \/ Finish(p, "err", loc[p])
    /\ UNCHANGED <<now, groupIdCache>>
    /\ StoreUnchanged

\* already a member: only last_active is refreshed
AddUserTouch(p) ==
    /\ pc[p] = "au_touch"
    /\ \/ Finish(p, "ok", loc[p])
       \/ Finish(p, "err", loc[p])
    /\ UNCHANGED <<now, groupIdCache>>
    /\ StoreUnchanged

AddUserInsert(p) ==
    /\ pc[p] = "au_insert"
    /\ \/ /\ group_members' = [group_members EXCEPT ![<<loc[p].g, loc[p].u>>] = @ + 1]
          /\ loc' = [loc EXCEPT ![p].stmts = 1]
          /\ Goto(p, "au_update")
       \/ /\ Finish(p, "err", loc[p])
          /\ UNCHANGED group_members
    /\ UNCHANGED <<now, groupIdCache, member_count, lastCommit, NotGroup>>

AddUserUpdate(p) ==
    /\ pc[p] = "au_update"
    /\ \/ /\ member_count' = [member_count EXCEPT ![loc[p].g] = @ + 1]
          /\ Finish(p, "ok", [loc[p] EXCEPT !.stmts = 2, !.committed = TRUE])
       \/ /\ Finish(p, "err", loc[p])
          /\ UNCHANGED member_count
    /\ UNCHANGED <<now, groupIdCache, group_members, lastCommit, NotGroup>>

\* GroupOperation::remove_user: has_user, then DELETE and UPDATE, each run on
\* the pool by itself
StartRemoveUser(p) == StartMutation(p, "remove_user") /\ Goto(p, "ru_has_user")

RemoveUserHasUser(p) ==
    /\ pc[p] = "ru_has_user"
    /\ \/ /\ IsMember(loc[p].g, loc[p].u)
          /\ Goto(p, "ru_delete")
          /\ UNCHANGED loc
       \/ \* not a member: return Ok(())
          /\ ~IsMember(loc[p].g, loc[p].u)
          /\ Finish(p, "ok", loc[p])
       \/ Finish(p, "err", loc[p])
    /\ UNCHANGED <<now, groupIdCache>>
    /\ StoreUnchanged

RemoveUserDelete(p) ==
    /\ pc[p] = "ru_delete"
    /\ \/ /\ group_members' = [group_members EXCEPT ![<<loc[p].g, loc[p].u>>] = 0]
          /\ loc' = [loc EXCEPT ![p].stmts = 1]
          /\ Goto(p, "ru_update")
       \/ /\ Finish(p, "err", loc[p])
          /\ UNCHANGED group_members
    /\ UNCHANGED <<now, groupIdCache, member_count, lastCommit, NotGroup>>

\* SET member_count = GREATEST(member_count - 1, 0)
RemoveUserUpdate(p) ==
    /\ pc[p] = "ru_update"
    /\ \/ /\ member_count' = [member_count EXCEPT ![loc[p].g] = IF @ > 0 THEN @ - 1 ELSE 0]
          /\ Finish(p, "ok", [loc[p] EXCEPT !.stmts = 2, !.committed = TRUE])
       \/ /\ Finish(p, "err", loc[p])
          /\ UNCHANGED member_count
    /\ UNCHANGED <<now, groupIdCache, group_members, lastCommit, NotGroup>>

RemoveUserSteps(p) ==
    \/ RemoveUserHasUser(p)
    \/ RemoveUserDelete(p)
    \/ RemoveUserUpdate(p)

\* the group_members rows of group g
MemberRows(g) ==
    LET RECURSIVE Sum(_)
        Sum(S) == IF S = {} THEN 0
                  ELSE LET u == CHOOSE x \in S : TRUE
                       IN group_members[<<g, u>>] + Sum(S \ {u})
    IN Sum(Users)

\* the client goes away and the handler's future is dropped at an await point;
\* an open transaction is rolled back by its destructor
Abort(p) ==
    /\ pc[p] \notin {"idle", "done"}
    /\ loc[p].op \in {"join", "leave", "add_user"}
    /\ Finish(p, "aborted", loc[p])
    /\ UNCHANGED <<now, groupIdCache>>
    /\ StoreUnchanged

-----------------------------------------------------------------------------
(* Coordinates, distances and the text of the result-set keys *)

Abs(x) == IF x < 0 THEN -x ELSE x

\* calculate_distance on one meridian: r * |delta latitude| in radians, with
\* pi taken as 355/113; latitudes in thousandths of a degree, result in metres
\* (r is divided by 1000 first to stay inside 32-bit arithmetic)
calculate_distance(lat1, lat2) ==
    (Abs(lat2 - lat1) * (EARTH_RADIUS \div 1000) * 355) \div (113 * 180)

\* distance <= radius, decided on the exact quotient
WithinRadius(lat1, lat2, radius) ==
    Abs(lat2 - lat1) * (EARTH_RADIUS \div 1000) * 355 <= radius * 113 * 180

\* latitude BETWEEN lat - radius / 111000.0 AND lat + radius / 111000.0
InBoundingBox(row_lat, lat, radius) == Abs(row_lat - lat) * 111 <= radius

\* (x * 100.0).round() / 100.0, in hundredths of a degree
Round2(x) == IF x >= 0 THEN (x + 5) \div 10 ELSE -((5 - x) \div 10)

\* "{}" of a value with at most two decimals: the shortest text
Display(c) ==
    [neg |-> c < 0, int |-> Abs(c) \div 100,
     frac |-> IF Abs(c) % 100 = 0 THEN << >>
              ELSE IF Abs(c) % 10 = 0 THEN <<(Abs(c) % 100) \div 10>>
              ELSE <<(Abs(c) % 100) \div 10, Abs(c) % 10>>]

\* "{:.2}": always two decimals
Fixed2(c) ==
    [neg |-> c < 0, int |-> Abs(c) \div 100,
     frac |-> <<(Abs(c) % 100) \div 10, Abs(c) % 10>>]

\* format!("{}{}:{}:{}:{}", prefix, lat_rounded, lon_rounded, radius, limit);
\* the group keys have no limit part (limit = -1 here)
cache_key(prefix, lat, radius, limit) ==
    [prefix |-> prefix, lat |-> Display(Round2(lat)), lon |-> Display(Round2(Longitude)),
     radius |-> radius, limit |-> limit]

\* KEYS <prefix><lat:.2>:<lon:.2>:* -- the glob matches a key whose text starts
\* with the pattern's text up to the star
MatchesPattern(key, prefix, lat) ==
    /\ key.prefix = prefix
    /\ key.lat = Fixed2(Round2(lat))
    /\ key.lon = Fixed2(Round2(Longitude))

Cached(key) == key \in DOMAIN resultCache /\ now < resultCache[key].exp

\* SETEX <key> 120 <json>; at is the time the list was read from the store
CachePut(key, list, at) ==
    [k \in DOMAIN resultCache \cup {key} |->
        IF k = key THEN [val |-> list, setAt |-> now, exp |-> now + CACHE_EXPIRE, at |-> at]
        ELSE resultCache[k]]

CacheDel(keys) == [k \in DOMAIN resultCache \ keys |-> resultCache[k]]

-----------------------------------------------------------------------------
(* Rows and lists *)

RECURSIVE Filter(_, _, _, _)
\* the rows of s that pass test: "box" (the SQL WHERE) or "radius" (the loop)
Filter(s, test, lat, radius) ==
    IF s = << >> THEN << >>
    ELSE LET keep == IF test = "box" THEN InBoundingBox(Head(s).lat, lat, radius)
                     ELSE WithinRadius(lat, Head(s).lat, radius)
             rest == Filter(Tail(s), test, lat, radius)
         IN IF keep THEN <<Head(s)>> \o rest ELSE rest

\* LIMIT n
Take(s, n) == IF Len(s) <= n THEN s ELSE SubSeq(s, 1, n)

RECURSIVE InsertByDistance(_, _)
InsertByDistance(e, s) ==
    IF s = << >> THEN <<e>>
    ELSE IF e.distance < Head(s).distance THEN <<e>> \o s
    ELSE <<Head(s)>> \o InsertByDistance(e, Tail(s))

RECURSIVE SortByDistance(_)
\* Vec::sort_by on distance: stable, ascending
SortByDistance(s) ==
    IF s = << >> THEN << >>
    ELSE LET n == Len(s) IN InsertByDistance(s[n], SortByDistance(SubSeq(s, 1, n - 1)))

WithDistance(s, lat) ==
    [i \in 1..Len(s) |-> [id |-> s[i].id, lat |-> s[i].lat,
                          distance |-> calculate_distance(lat, s[i].lat)]]

RECURSIVE Without(_, _)
Without(s, id) ==
    IF s = << >> THEN << >>
    ELSE IF Head(s).id = id THEN Without(Tail(s), id)
    ELSE <<Head(s)>> \o Without(Tail(s), id)

Ids(s) == {s[i].id : i \in 1..Len(s)}

-----------------------------------------------------------------------------
(* Responses *)

success_to_api_response(data) == [status |-> 200, code |-> SUCCESS, resp_data |-> Some(data)]

error_to_api_response(status, code) == [status |-> status, code |-> code, resp_data |-> None]

\* a handler that would answer a failed search with an empty success
search_response_swallow(op, outcome, list) ==
    success_to_api_response(IF outcome = "ok" THEN list ELSE << >>)

\* the match on the model function's Result in the three search handlers
search_response(op, outcome, list) ==
    IF outcome = "ok" THEN success_to_api_response(list)
    ELSE error_to_api_response(IF op = "find_by_location" THEN 500 ELSE 200, INTERNAL_ERROR)

FinishSearch(p, outcome, l) ==
    Finish(p, outcome, [l EXCEPT !.resp = search_response(l.op, outcome, l.list)])

-----------------------------------------------------------------------------
(* Proximity searches with a cached result set: NearbyUser::find_by_location, *)
(* UserActivity::find_recent_activities, Group::find_by_location               *)

SearchOps == {"find_nearby_users", "find_recent_activities", "find_by_location"}

Prefix(op) ==
    CASE op = "find_nearby_users" -> "user:loc:"
      [] op = "find_recent_activities" -> "activity:"
      [] op = "find_by_location" -> "group:loc:"

Table(op) ==
    CASE op = "find_nearby_users" -> user_locations
      [] op = "find_recent_activities" -> user_activities
      [] op = "find_by_location" -> groups

\* activity ids issued and no longer in the table
Deleted == {ActivityIds[i] : i \in 1..activitySeq} \ Ids(user_activities)

\* the handler's defaults: radius.unwrap_or(5000.0), or for groups
\* radius.unwrap_or(1000.0).min(max_search_radius); limit.unwrap_or(20).min(50)
EffectiveRadius(op, radius) ==
    IF op = "find_by_location"
    THEN (IF (IF radius = None THEN 1000 ELSE radius[1]) < max_search_radius
          THEN (IF radius = None THEN 1000 ELSE radius[1]) ELSE max_search_radius)
    ELSE (IF radius = None THEN 5000 ELSE radius[1])

EffectiveLimit(op, limit) ==
    IF op = "find_by_location" THEN -1
    ELSE IF limit = None THEN 20
    ELSE IF limit[1] < 50 THEN limit[1] ELSE 50

SearchKey(p) == cache_key(Prefix(loc[p].op), loc[p].lat, loc[p].radius, loc[p].limit)

StartSearch(p, from, op, lats, radii, limits) ==
    /\ pc[p] = from
    /\ from = "admitted" => loc[p].route = op
    /\ \E latitude \in lats, radius \in radii, limit \in limits :
        IF latitude = None
        THEN Finish(p, "rejected", [Idle0 EXCEPT !.op = op, !.route = loc[p].route,
                 !.resp = error_to_api_response(200, VALIDATION_ERROR)])
        ELSE /\ loc' = [loc EXCEPT ![p] = [Idle0 EXCEPT !.op = op, !.lat = latitude[1],
                            !.route = loc[p].route,
                            !.requested = radius,
                            !.radius = EffectiveRadius(op, radius),
                            !.limit = EffectiveLimit(op, limit),
                            !.gone = Deleted]]
             /\ Goto(p, "search_get")
    /\ UNCHANGED <<now, GroupVars, NearbyVars, UserVars, RateVars, GeoVars, IndexVars, SideVars>>

\* a read that renews the key's TTL on a hit (GET, then EXPIRE 120)
SearchGet_touch(p) ==
    /\ pc[p] = "search_get"
    /\ \/ /\ Cached(SearchKey(p))
          /\ resultCache' = [resultCache EXCEPT
                                ![SearchKey(p)].exp = now + CACHE_EXPIRE]
          /\ FinishSearch(p, "ok", [loc[p] EXCEPT
                 !.list = resultCache[SearchKey(p)].val,
                 !.age = now - resultCache[SearchKey(p)].setAt,
                 !.sinceQuery = now - resultCache[SearchKey(p)].at])
       \/ /\ ~Cached(SearchKey(p))
          /\ Goto(p, "search_select")
          /\ UNCHANGED <<loc, resultCache>>
       \/ /\ Goto(p, "search_select")
          /\ loc' = [loc EXCEPT ![p].cacheFailed = TRUE]
          /\ UNCHANGED resultCache
    /\ UNCHANGED <<now, GroupVars, user_activities, user_locations, activitySeq,
                   UserVars, RateVars, GeoVars, IndexVars, SideVars>>

SearchGet(p) ==
    /\ pc[p] = "search_get"
    /\ \/ /\ Cached(SearchKey(p))
          /\ FinishSearch(p, "ok", [loc[p] EXCEPT
                 !.list = resultCache[SearchKey(p)].val,
                 !.age = now - resultCache[SearchKey(p)].setAt,
                 !.sinceQuery = now - resultCache[SearchKey(p)].at])
       \/ /\ ~Cached(SearchKey(p))
          /\ Goto(p, "search_select")
          /\ UNCHANGED loc
       \/ \* no connection, or the GET fails: treated as a miss
          /\ Goto(p, "search_select")
          /\ loc' = [loc EXCEPT ![p].cacheFailed = TRUE]
    /\ UNCHANGED <<now, GroupVars, NearbyVars, UserVars, RateVars, GeoVars, IndexVars, SideVars>>

\* the SQL bounding-box query (newest first, LIMIT), then the distance filter
SearchResult(op, lat, radius, limit) ==
    LET boxed == Filter(Table(op), "box", lat, radius)
        rows == IF op = "find_by_location" THEN boxed ELSE Take(boxed, limit)
        near == Filter(rows, "radius", lat, radius)
    IN CASE op = "find_nearby_users" -> SortByDistance(WithDistance(near, lat))
         [] op = "find_recent_activities" -> WithDistance(near, lat)
         [] op = "find_by_location" -> near

SearchSelect(p) ==
    /\ pc[p] = "search_select"
    /\ \/ /\ loc' = [loc EXCEPT ![p].list =
                        SearchResult(loc[p].op, loc[p].lat, loc[p].radius, loc[p].limit),
                                ![p].computedAt = now]
          /\ Goto(p, "search_set")
       \/ \* the query fails: `?` returns the error to the handler
          FinishSearch(p, "err", [loc[p] EXCEPT !.storeFailed = TRUE])
    /\ UNCHANGED <<now, GroupVars, NearbyVars, UserVars, RateVars, GeoVars, IndexVars, SideVars>>

SearchSet(p) ==
    /\ pc[p] = "search_set"
    /\ \/ /\ resultCache' = CachePut(SearchKey(p), loc[p].list, loc[p].computedAt)
          /\ FinishSearch(p, "ok", loc[p])
       \/ \* no connection, or the SETEX fails: the result is discarded
          /\ UNCHANGED resultCache
          /\ FinishSearch(p, "ok", [loc[p] EXCEPT !.cacheFailed = TRUE])
    /\ UNCHANGED <<now, GroupVars, user_activities, user_locations, activitySeq,
                   UserVars, RateVars, GeoVars, IndexVars, SideVars>>

SearchSteps(p) ==
    \/ SearchGet(p)
    \/ SearchSelect(p)
    \/ SearchSet(p)

-----------------------------------------------------------------------------
(* Searches that read the store only: get_nearby_activities (ST_DWithin,    *)
(* newest first) and search_groups_by_location (ST_DWithin, nearest first)  *)

DirectOps == {"get_nearby_activities", "search_groups_by_location"}

\* latitude < -90.0 || latitude > 90.0 of get_nearby_activities, negated
ValidCoordinates(lat) == -90000 <= lat /\ lat <= 90000

\* radius.min(max_search_radius) in get_nearby_activities; the group search
\* passes payload.radius (default_radius() when absent) on as it is
DirectRadius(op, radius) ==
    IF op = "get_nearby_activities"
    THEN (IF radius[1] < max_search_radius THEN radius[1] ELSE max_search_radius)
    ELSE (IF radius = None THEN 5000 ELSE radius[1])

StartDirectSearch(p, op, lats, radii, limits) ==
    /\ pc[p] = "idle"
    /\ \E latitude \in lats, radius \in radii, limit \in limits :
        IF op = "get_nearby_activities" /\ ~ValidCoordinates(latitude)
        THEN Finish(p, "rejected", [Idle0 EXCEPT !.op = op, !.lat = latitude,
                 !.requested = radius,
                 !.resp = error_to_api_response(200, VALIDATION_ERROR)])
        ELSE /\ loc' = [loc EXCEPT ![p] = [Idle0 EXCEPT !.op = op, !.lat = latitude,
                            !.requested = radius,
                            !.radius = DirectRadius(op, radius),
                            !.limit = limit]]
             /\ Goto(p, "direct_select")
    /\ UNCHANGED <<now, GroupVars, NearbyVars, UserVars, RateVars, GeoVars, IndexVars, SideVars>>

\* WHERE ST_DWithin(row, point, radius): the rows within radius metres (taken
\* on the sphere of calculate_distance; rows more than two radii of latitude
\* away are dropped first)
ST_DWithin(s, lat, radius) ==
    Filter(Filter(s, "box", lat, 2 * radius), "radius", lat, radius)

\* the distance search_groups_by_location reports: sqrt(dx * dx + dy * dy)
\* with dy = |delta latitude| * 111000.0 and dx = 0 on one meridian
PlanarDistance(s, lat) ==
    [i \in 1..Len(s) |-> [s[i] EXCEPT !.distance = Abs(s[i].lat - lat) * 111]]

DirectResult(op, lat, radius, limit) ==
    IF op = "get_nearby_activities"
    THEN \* ORDER BY created_at DESC LIMIT actual_limit, then truncate(limit)
         Take(Take(ST_DWithin(user_activities, lat, radius),
                   IF limit <= 0 THEN 20 ELSE limit), limit)
    ELSE \* ORDER BY distance LIMIT 50
         PlanarDistance(Take(SortByDistance(WithDistance(ST_DWithin(groups, lat, radius), lat)),
                             50), lat)

DirectSelect(p) ==
    /\ pc[p] = "direct_select"
    /\ \/ FinishSearch(p, "ok", [loc[p] EXCEPT !.list =
              DirectResult(loc[p].op, loc[p].lat, loc[p].radius, loc[p].limit)])
       \/ FinishSearch(p, "err", [loc[p] EXCEPT !.storeFailed = TRUE])
    /\ UNCHANGED <<now, GroupVars, NearbyVars, UserVars, RateVars, GeoVars, IndexVars, SideVars>>

-----------------------------------------------------------------------------
(* UserActivity::create: INSERT the activity, upsert the user's location,   *)
(* then KEYS and DEL the result sets of the area                             *)

StartCreate(p, from, lats) ==
    /\ pc[p] = from
    /\ from = "admitted" => loc[p].route = "create"
    /\ activitySeq < MaxActivities
    /\ \E u \in Callers, latitude \in lats :
        loc' = [loc EXCEPT ![p] = [Idle0 EXCEPT !.op = "create", !.u = u,
                                      !.lat = latitude, !.route = loc[p].route]]
    /\ Goto(p, "create_insert")
    /\ UNCHANGED <<now, GroupVars, NearbyVars, UserVars, RateVars, GeoVars, IndexVars, SideVars>>

CreateInsert(p) ==
    /\ pc[p] = "create_insert"
    /\ \/ /\ activitySeq < Len(ActivityIds)
          /\ user_activities' = <<[id |-> ActivityIds[activitySeq + 1], lat |-> loc[p].lat]>>
                                    \o user_activities
          /\ activitySeq' = activitySeq + 1
          /\ loc' = [loc EXCEPT ![p].stmts = 1, ![p].id = ActivityIds[activitySeq + 1]]
          /\ Goto(p, "create_upsert")
       \/ /\ Finish(p, "err", [loc[p] EXCEPT
                    !.resp = error_to_api_response(200, INTERNAL_ERROR)])
          /\ UNCHANGED <<user_activities, activitySeq>>
    /\ UNCHANGED <<now, GroupVars, user_locations, resultCache, UserVars, RateVars, GeoVars, IndexVars, SideVars>>

CreateUpsert(p) ==
    /\ pc[p] = "create_upsert"
    /\ \/ /\ user_locations' = <<[id |-> loc[p].u, lat |-> loc[p].lat]>>
                                    \o Without(user_locations, loc[p].u)
          /\ loc' = [loc EXCEPT ![p].stmts = 2, ![p].committed = TRUE]
          /\ Goto(p, "create_invalidate")
       \/ /\ Finish(p, "err", [loc[p] EXCEPT
                    !.resp = error_to_api_response(200, INTERNAL_ERROR)])
          /\ UNCHANGED user_locations
    /\ UNCHANGED <<now, GroupVars, user_activities, activitySeq, resultCache,
                   UserVars, RateVars, GeoVars, IndexVars, SideVars>>

\* the keys the two KEYS patterns of create select
AreaKeys(lat) ==
    {k \in DOMAIN resultCache :
        MatchesPattern(k, "user:loc:", lat) \/ MatchesPattern(k, "activity:", lat)}

CreateInvalidate(p) ==
    /\ pc[p] = "create_invalidate"
    /\ \/ \* KEYS, then one DEL per key; a failing command is skipped
          \E deleted \in SUBSET AreaKeys(loc[p].lat) :
            /\ resultCache' = CacheDel(deleted)
            /\ Finish(p, "ok",
                 [(IF deleted = {} THEN Issued(p, "KEYS", "create")
                   ELSE [Issued(p, "KEYS", "create") EXCEPT !.ops = @ \cup
                           {[kind |-> "DEL", by |-> "create",
                             afterCommit |-> loc[p].committed]}])
                  EXCEPT !.cacheFailed = (deleted # AreaKeys(loc[p].lat)),
                         !.resp = success_to_api_response(loc[p].u)])
       \/ \* no connection: nothing is cleared
          /\ UNCHANGED resultCache
          /\ Finish(p, "ok", [loc[p] EXCEPT !.cacheFailed = TRUE,
                                 !.resp = success_to_api_response(loc[p].u)])
    /\ UNCHANGED <<now, GroupVars, user_activities, user_locations, activitySeq,
                   UserVars, RateVars, GeoVars, IndexVars, SideVars>>

CreateSteps(p) ==
    \/ CreateInsert(p)
    \/ CreateUpsert(p)
    \/ CreateInvalidate(p)

-----------------------------------------------------------------------------
(* ActivityOperation::delete_activity: one DELETE, no cache command *)

StartDeleteActivity(p) ==
    /\ pc[p] = "idle"
    /\ \E id \in Ids(user_activities) :
        loc' = [loc EXCEPT ![p] = [Idle0 EXCEPT !.op = "delete_activity", !.id = id]]
    /\ Goto(p, "delete_exec")
    /\ UNCHANGED <<now, GroupVars, NearbyVars, UserVars, RateVars, GeoVars, IndexVars, SideVars>>

DeleteExec(p) ==
    /\ pc[p] = "delete_exec"
    /\ \/ /\ user_activities' = Without(user_activities, loc[p].id)
          /\ Finish(p, "ok", loc[p])
       \/ /\ UNCHANGED user_activities
          /\ Finish(p, "err", loc[p])
    /\ UNCHANGED <<now, GroupVars, user_locations, activitySeq, resultCache,
                   UserVars, RateVars, GeoVars, IndexVars, SideVars>>

-----------------------------------------------------------------------------
(* update_nickname: UPDATE users, then cache_user (SETEX user:info:<id>) *)

StartUpdateNickname(p) ==
    /\ pc[p] = "idle"
    /\ \E u \in Callers, n \in Nicknames :
        IF Len(n) < 2 \/ Len(n) > 24
        THEN Finish(p, "rejected", [Idle0 EXCEPT !.op = "update_nickname", !.u = u,
                 !.resp = error_to_api_response(400, VALIDATION_ERROR)])
        ELSE /\ loc' = [loc EXCEPT ![p] = [Idle0 EXCEPT !.op = "update_nickname",
                            !.u = u, !.name = n]]
             /\ Goto(p, "nick_update")
    /\ UNCHANGED <<now, GroupVars, NearbyVars, UserVars, RateVars, GeoVars, IndexVars, SideVars>>

NickUpdate(p) ==
    /\ pc[p] = "nick_update"
    /\ \/ /\ nickname' = [nickname EXCEPT ![loc[p].u] = loc[p].name]
          /\ loc' = [loc EXCEPT ![p].stmts = 1, ![p].committed = TRUE]
          /\ Goto(p, "nick_cache")
       \/ /\ UNCHANGED nickname
          /\ Finish(p, "err", [loc[p] EXCEPT
                 !.resp = error_to_api_response(200, INTERNAL_ERROR)])
    /\ UNCHANGED <<now, GroupVars, NearbyVars, userInfoCache, RateVars, GeoVars, IndexVars, SideVars>>

\* a cache_user that reports Ok without having written the snapshot
NickCache_skip_set(p) ==
    /\ pc[p] = "nick_cache"
    /\ \/ /\ UNCHANGED userInfoCache
          /\ Finish(p, "ok", [Issued(p, "SET", "cache_user") EXCEPT
                 !.resp = success_to_api_response(loc[p].name)])
       \/ /\ UNCHANGED userInfoCache
          /\ Finish(p, "ok", [loc[p] EXCEPT !.cacheFailed = TRUE,
                 !.resp = success_to_api_response(loc[p].name)])
    /\ UNCHANGED <<now, GroupVars, NearbyVars, nickname, RateVars, GeoVars, IndexVars, SideVars>>

\* cache_user returns Err on a failed connection or SETEX; the handler logs it
NickCache(p) ==
    /\ pc[p] = "nick_cache"
    /\ \/ /\ userInfoCache' = [userInfoCache EXCEPT
                                 ![loc[p].u] = SetEx(loc[p].name, USER_INFO_EXPIRE)]
          /\ Finish(p, "ok", [Issued(p, "SET", "cache_user") EXCEPT
                 !.resp = success_to_api_response(loc[p].name)])
       \/ /\ UNCHANGED userInfoCache
          /\ Finish(p, "ok", [loc[p] EXCEPT !.cacheFailed = TRUE,
                 !.resp = success_to_api_response(loc[p].name)])
    /\ UNCHANGED <<now, GroupVars, NearbyVars, nickname, RateVars, GeoVars, IndexVars, SideVars>>

NicknameSteps(p) ==
    \/ NickUpdate(p)
    \/ NickCache(p)

-----------------------------------------------------------------------------
(* RateLimiter::check_rate_limit, the layer in front of every route *)

\* forwarded (ghost): the requests passed on to next.run since the key appeared
NoCounter == [count |-> 0, exp |-> -1, forwarded |-> 0]

\* a Redis failure ends the request with a bare HTTP 500
GateError(p) ==
    Finish(p, "err", [loc[p] EXCEPT !.cacheFailed = TRUE,
                         !.resp = [status |-> 500, code |-> -1, resp_data |-> None]])

\* count > rate_limit_requests answers RATE_LIMIT, otherwise next.run(req)
Admit(p, l) ==
    IF l.val > rate_limit_requests
    THEN Finish(p, "limited", [l EXCEPT !.resp = error_to_api_response(200, RATE_LIMIT)])
    ELSE loc' = [loc EXCEPT ![p] = l] /\ Goto(p, "admitted")

StartRequest(p, routes) ==
    /\ pc[p] = "idle"
    /\ rateLimit.count <= rate_limit_requests
    /\ \E route \in routes :
        loc' = [loc EXCEPT ![p] = [Idle0 EXCEPT !.op = "request", !.route = route]]
    /\ Goto(p, "rl_conn")
    /\ UNCHANGED <<now, GroupVars, NearbyVars, UserVars, RateVars, GeoVars, IndexVars, SideVars>>

GateConnect(p) ==
    /\ pc[p] = "rl_conn"
    /\ \/ Goto(p, "rl_incr") /\ UNCHANGED loc
       \/ GateError(p)
    /\ UNCHANGED <<now, GroupVars, NearbyVars, UserVars, RateVars, GeoVars, IndexVars, SideVars>>

\* an INCR whose reply is the value before the increment
GateIncr_stale_reply(p) ==
    /\ pc[p] = "rl_incr"
    /\ \/ /\ rateLimit' = [rateLimit EXCEPT !.count = @ + 1,
                               !.forwarded = IF rateLimit.count # 1
                                                /\ rateLimit.count <= rate_limit_requests
                                             THEN @ + 1 ELSE @]
          /\ IF rateLimit.count = 1
             THEN /\ loc' = [loc EXCEPT ![p].val = rateLimit.count]
                  /\ Goto(p, "rl_expire")
             ELSE Admit(p, [loc[p] EXCEPT !.val = rateLimit.count])
       \/ /\ UNCHANGED rateLimit
          /\ GateError(p)
    /\ UNCHANGED <<now, GroupVars, NearbyVars, UserVars, GeoVars, IndexVars, SideVars>>

GateIncr(p) ==
    /\ pc[p] = "rl_incr"
    /\ \/ /\ rateLimit' = [rateLimit EXCEPT !.count = @ + 1,
                               !.forwarded = IF rateLimit.count + 1 # 1
                                                /\ rateLimit.count + 1 <= rate_limit_requests
                                             THEN @ + 1 ELSE @]
          /\ IF rateLimit.count + 1 = 1
             THEN /\ loc' = [loc EXCEPT ![p].val = rateLimit.count + 1]
                  /\ Goto(p, "rl_expire")
             ELSE Admit(p, [loc[p] EXCEPT !.val = rateLimit.count + 1])
       \/ /\ UNCHANGED rateLimit
          /\ GateError(p)
    /\ UNCHANGED <<now, GroupVars, NearbyVars, UserVars, GeoVars, IndexVars, SideVars>>

GateExpire(p) ==
    /\ pc[p] = "rl_expire"
    /\ \/ /\ rateLimit' = IF rateLimit.count > 0
                          THEN [rateLimit EXCEPT !.exp = now + rate_limit_window,
                                  !.forwarded = IF loc[p].val <= rate_limit_requests
                                                THEN @ + 1 ELSE @]
                          ELSE rateLimit
          /\ Admit(p, loc[p])
       \/ /\ UNCHANGED rateLimit
          /\ GateError(p)
    /\ UNCHANGED <<now, GroupVars, NearbyVars, UserVars, GeoVars, IndexVars, SideVars>>

GateSteps(p) ==
    \/ GateConnect(p)
    \/ GateIncr(p)
    \/ GateExpire(p)

-----------------------------------------------------------------------------
(* GroupCacheOperations: the snapshots group:id:<id> and the geo set        *)
(* groups:geo                                                                *)

NoIndex == [pos |-> << >>, exp |-> -1]

GroupLatitude(g) == groups[CHOOSE i \in 1..Len(groups) : groups[i].id = g].lat

\* GEOADD groups:geo <lon> <lat> <id>
GeoAdd(g, lat) ==
    [geoIndex EXCEPT !.pos = [m \in DOMAIN geoIndex.pos \cup {g} |->
                                 IF m = g THEN lat ELSE geoIndex.pos[m]]]

\* EXPIRE groups:geo 600; no effect on a missing key
GeoTouch(ix) ==
    IF DOMAIN ix.pos = {} THEN ix ELSE [ix EXCEPT !.exp = now + GROUP_CACHE_EXPIRE]

\* EXPIRE group:id:<id> 600: the entry keeps its value and the time it was set
Touch(e) == IF Alive(e) THEN [e EXCEPT !.exp = now + GROUP_CACHE_EXPIRE] ELSE e

RECURSIVE SeqOf(_)
SeqOf(S) == IF S = {} THEN << >>
            ELSE LET x == CHOOSE y \in S : TRUE IN <<x>> \o SeqOf(S \ {x})

StartCacheOp(p, op, next) ==
    /\ pc[p] = "idle"
    /\ \E g \in Groups :
        loc' = [loc EXCEPT ![p] = [Idle0 EXCEPT !.op = op, !.g = g,
                                      !.val = member_count[g]]]
    /\ Goto(p, next)
    /\ UNCHANGED <<now, GroupVars, NearbyVars, UserVars, RateVars, GeoVars, IndexVars, SideVars>>

StartCacheGroup(p) == StartCacheOp(p, "cache_group", "cg_set")

CacheGroupSet(p) ==
    /\ pc[p] = "cg_set"
    /\ \/ /\ groupIdCache' = [groupIdCache EXCEPT
                                ![loc[p].g] = SetEx(loc[p].val, GROUP_CACHE_EXPIRE)]
          /\ cachedLatitude' = [cachedLatitude EXCEPT ![loc[p].g] = GroupLatitude(loc[p].g)]
          /\ Goto(p, "cg_geoadd")
          /\ UNCHANGED loc
       \/ /\ UNCHANGED <<groupIdCache, cachedLatitude>>
          /\ Finish(p, "err", loc[p])
    /\ UNCHANGED <<now, member_count, group_members, lastCommit, NearbyVars, UserVars,
                   RateVars, GeoVars, IndexVars, messages, messageCache, SessionVars>>

CacheGroupGeoAdd(p) ==
    /\ pc[p] = "cg_geoadd"
    /\ \/ /\ geoIndex' = GeoAdd(loc[p].g, GroupLatitude(loc[p].g))
          /\ Goto(p, "cg_expire")
          /\ UNCHANGED loc
       \/ /\ UNCHANGED geoIndex
          /\ Finish(p, "err", loc[p])
    /\ UNCHANGED <<now, GroupVars, NearbyVars, UserVars, RateVars, groups, indexed, IndexVars, SideVars>>

CacheGroupExpire(p) ==
    /\ pc[p] = "cg_expire"
    /\ \/ /\ geoIndex' = GeoTouch(geoIndex)
          /\ indexed' = indexed \cup {loc[p].g}
          /\ Finish(p, "ok", loc[p])
       \/ /\ UNCHANGED <<geoIndex, indexed>>
          /\ Finish(p, "err", loc[p])
    /\ UNCHANGED <<now, GroupVars, NearbyVars, UserVars, RateVars, groups, IndexVars, SideVars>>

\* update_group_location(group_id, latitude, longitude): ZREM, GEOADD, then GET
\* the snapshot and, when there is one, SETEX it with the new coordinates
StartUpdateGroupLocation(p, lats) ==
    /\ pc[p] = "idle"
    /\ \E g \in Groups, latitude \in lats :
        loc' = [loc EXCEPT ![p] = [Idle0 EXCEPT !.op = "update_group_location", !.g = g,
                                      !.lat = latitude,
                                      !.wasIndexed = (g \in DOMAIN geoIndex.pos)]]
    /\ Goto(p, "ul_zrem")
    /\ UNCHANGED <<now, GroupVars, NearbyVars, UserVars, RateVars, GeoVars, IndexVars, SideVars>>

\* ZREM groups:geo <id>; Redis deletes a sorted set that has become empty
GeoRem(g) ==
    IF DOMAIN geoIndex.pos \ {g} = {} THEN NoIndex
    ELSE [geoIndex EXCEPT !.pos = [m \in DOMAIN geoIndex.pos \ {g} |-> geoIndex.pos[m]]]

UpdateLocationZrem(p) ==
    /\ pc[p] = "ul_zrem"
    /\ \/ /\ geoIndex' = GeoRem(loc[p].g)
          /\ Goto(p, "ul_geoadd")
          /\ UNCHANGED loc
       \/ \* no connection, or the ZREM fails: `?` returns the error
          /\ UNCHANGED geoIndex
          /\ Finish(p, "err", [loc[p] EXCEPT !.cacheFailed = TRUE])
    /\ UNCHANGED <<now, GroupVars, NearbyVars, UserVars, RateVars, groups, indexed,
                   IndexVars, SideVars>>

UpdateLocationGeoAdd(p) ==
    /\ pc[p] = "ul_geoadd"
    /\ \/ /\ geoIndex' = GeoAdd(loc[p].g, loc[p].lat)
          /\ Goto(p, "ul_get")
          /\ UNCHANGED loc
       \/ /\ UNCHANGED geoIndex
          /\ Finish(p, "err", [loc[p] EXCEPT !.cacheFailed = TRUE])
    /\ UNCHANGED <<now, GroupVars, NearbyVars, UserVars, RateVars, groups, indexed,
                   IndexVars, SideVars>>

UpdateLocationGet(p) ==
    /\ pc[p] = "ul_get"
    /\ \/ /\ Alive(groupIdCache[loc[p].g])
          /\ loc' = [loc EXCEPT ![p].val = groupIdCache[loc[p].g].val,
                                ![p].seen = groupIdCache[loc[p].g].setAt]
          /\ Goto(p, "ul_set")
       \/ /\ ~Alive(groupIdCache[loc[p].g])
          /\ Finish(p, "ok", loc[p])
       \/ Finish(p, "err", [loc[p] EXCEPT !.cacheFailed = TRUE])
    /\ UNCHANGED <<now, GroupVars, NearbyVars, UserVars, RateVars, GeoVars, IndexVars, SideVars>>

\* the snapshot that was read goes back with the call's coordinates
UpdateLocationSet(p) ==
    /\ pc[p] = "ul_set"
    /\ \/ /\ groupIdCache' = [groupIdCache EXCEPT ![loc[p].g] =
                                [val |-> loc[p].val, setAt |-> loc[p].seen,
                                 exp |-> now + GROUP_CACHE_EXPIRE]]
          /\ cachedLatitude' = [cachedLatitude EXCEPT ![loc[p].g] = loc[p].lat]
          /\ Finish(p, "ok", loc[p])
       \/ /\ UNCHANGED <<groupIdCache, cachedLatitude>>
          /\ Finish(p, "err", [loc[p] EXCEPT !.cacheFailed = TRUE])
    /\ UNCHANGED <<now, member_count, group_members, lastCommit, NearbyVars, UserVars,
                   RateVars, GeoVars, IndexVars, messages, messageCache, SessionVars>>

UpdateLocationSteps(p) ==
    \/ UpdateLocationZrem(p)
    \/ UpdateLocationGeoAdd(p)
    \/ UpdateLocationGet(p)
    \/ UpdateLocationSet(p)

StartGetCachedGroup(p) == StartCacheOp(p, "get_cached_group", "gg_get")

GetCachedGroupGet(p) ==
    /\ pc[p] = "gg_get"
    /\ \/ /\ Alive(groupIdCache[loc[p].g])
          /\ loc' = [loc EXCEPT ![p].val = groupIdCache[loc[p].g].val,
                                ![p].age = now - groupIdCache[loc[p].g].setAt]
          /\ Goto(p, "gg_expire")
       \/ /\ ~Alive(groupIdCache[loc[p].g])
          /\ Finish(p, "ok", [loc[p] EXCEPT !.val = -1])
       \/ Finish(p, "err", loc[p])
    /\ UNCHANGED <<now, GroupVars, NearbyVars, UserVars, RateVars, GeoVars, IndexVars, SideVars>>

GetCachedGroupExpire(p) ==
    /\ pc[p] = "gg_expire"
    /\ \/ /\ groupIdCache' = [groupIdCache EXCEPT ![loc[p].g] = Touch(@)]
          /\ Finish(p, "ok", loc[p])
       \/ /\ UNCHANGED groupIdCache
          /\ Finish(p, "err", loc[p])
    /\ UNCHANGED <<now, member_count, group_members, lastCommit, NotGroup>>

StartFindNearbyGroups(p, lats, radii) ==
    /\ pc[p] = "idle"
    /\ \E latitude \in lats, radius \in radii :
        loc' = [loc EXCEPT ![p] = [Idle0 EXCEPT !.op = "find_nearby_groups",
                                      !.lat = latitude, !.radius = radius,
                                      !.late = (indexed = Groups)]]
    /\ Goto(p, "ng_expire")
    /\ UNCHANGED <<now, GroupVars, NearbyVars, UserVars, RateVars, GeoVars, IndexVars, SideVars>>

FindNearbyGroupsExpire(p) ==
    /\ pc[p] = "ng_expire"
    /\ \/ /\ geoIndex' = GeoTouch(geoIndex)
          /\ Goto(p, "ng_radius")
          /\ UNCHANGED loc
       \/ \* the EXPIRE fails: ignored
          /\ UNCHANGED geoIndex
          /\ Goto(p, "ng_radius")
          /\ UNCHANGED loc
       \/ \* no connection: `?` returns the error
          /\ UNCHANGED geoIndex
          /\ Finish(p, "err", [loc[p] EXCEPT !.cacheFailed = TRUE])
    /\ UNCHANGED <<now, GroupVars, NearbyVars, UserVars, RateVars, groups, indexed, IndexVars, SideVars>>

\* GEORADIUS groups:geo <lon> <lat> <radius> m
GeoRadius(lat, radius) ==
    {m \in DOMAIN geoIndex.pos : WithinRadius(lat, geoIndex.pos[m], radius)}

FindNearbyGroupsRadius(p) ==
    /\ pc[p] = "ng_radius"
    /\ \/ IF GeoRadius(loc[p].lat, loc[p].radius) = {}
          THEN Finish(p, "ok", loc[p])
          ELSE /\ loc' = [loc EXCEPT ![p].todo =
                             SeqOf({[id |-> m, lat |-> geoIndex.pos[m]] :
                                      m \in GeoRadius(loc[p].lat, loc[p].radius)})]
               /\ Goto(p, "ng_get")
       \/ \* the command fails: `?` returns the error
          Finish(p, "err", [loc[p] EXCEPT !.cacheFailed = TRUE])
    /\ UNCHANGED <<now, GroupVars, NearbyVars, UserVars, RateVars, GeoVars, IndexVars, SideVars>>

\* one turn of the loop: GET the snapshot of the next id and, when there is
\* one, EXPIRE it and push the group
FindNearbyGroupsGet(p) ==
    /\ pc[p] = "ng_get"
    /\ LET e == Head(loc[p].todo)
           snap == groupIdCache[e.id]
           after(l) == IF Tail(loc[p].todo) = << >>
                       THEN Finish(p, "ok", [l EXCEPT !.todo = << >>])
                       ELSE /\ loc' = [loc EXCEPT ![p] = [l EXCEPT !.todo = Tail(@)]]
                            /\ UNCHANGED pc
       IN \/ /\ Alive(snap)
             /\ groupIdCache' = [groupIdCache EXCEPT ![e.id] = Touch(@)]
             /\ after([loc[p] EXCEPT !.list = Append(@, e),
                          !.age = IF now - snap.setAt > @ THEN now - snap.setAt ELSE @])
          \/ /\ ~Alive(snap)
             /\ UNCHANGED groupIdCache
             /\ after(loc[p])
          \/ /\ UNCHANGED groupIdCache
             /\ Finish(p, "err", loc[p])
    /\ UNCHANGED <<now, member_count, group_members, lastCommit, NotGroup>>

GroupCacheSteps(p) ==
    \/ CacheGroupSet(p)
    \/ CacheGroupGeoAdd(p)
    \/ CacheGroupExpire(p)
    \/ GetCachedGroupGet(p)
    \/ GetCachedGroupExpire(p)
    \/ FindNearbyGroupsExpire(p)
    \/ FindNearbyGroupsRadius(p)
    \/ FindNearbyGroupsGet(p)

-----------------------------------------------------------------------------
(* ActivityCacheOperations: the geo sets users:geo and activities:geo with  *)
(* the snapshots user:<id> and activity:<id>                                *)

KindOf(op) ==
    IF op \in {"cache_nearby_users", "find_nearby_users_geo"} THEN "user" ELSE "activity"

StoreRows(kind) == IF kind = "user" THEN user_locations ELSE user_activities

\* GEOADD <kind>:geo <lon> <lat> <id>
EntityGeoAdd(kind, e) ==
    [entityGeo EXCEPT ![kind] = [m \in DOMAIN entityGeo[kind] \cup {e.id} |->
                                    IF m = e.id THEN e.lat ELSE entityGeo[kind][m]]]

\* SETEX <kind>:<id> 120 <json>
EntityCacheSet(kind, e) ==
    [entityCache EXCEPT ![kind] = [i \in DOMAIN entityCache[kind] \cup {e.id} |->
                                      IF i = e.id THEN SetEx(e.lat, CACHE_EXPIRE)
                                      ELSE entityCache[kind][i]]]

EntityCached(kind, id) ==
    id \in DOMAIN entityCache[kind] /\ now < entityCache[kind][id].exp

\* cache_nearby_users(users) / cache_nearby_activities(activities), given the
\* rows the store holds
StartCacheNearby(p, op) ==
    /\ pc[p] = "idle"
    /\ loc' = [loc EXCEPT ![p] = [Idle0 EXCEPT !.op = op, !.kind = KindOf(op),
                                     !.todo = StoreRows(KindOf(op))]]
    /\ Goto(p, "cn_connect")
    /\ UNCHANGED <<now, GroupVars, NearbyVars, UserVars, RateVars, GeoVars, IndexVars, SideVars>>

\* create_activity(activity), given one activity of the store
StartCreateActivity(p) ==
    /\ pc[p] = "idle"
    /\ \E i \in 1..Len(user_activities) :
        loc' = [loc EXCEPT ![p] = [Idle0 EXCEPT !.op = "create_activity",
                                      !.kind = "activity",
                                      !.id = user_activities[i].id,
                                      !.todo = <<user_activities[i]>>]]
    /\ Goto(p, "cn_connect")
    /\ UNCHANGED <<now, GroupVars, NearbyVars, UserVars, RateVars, GeoVars, IndexVars, SideVars>>

CacheNearbyConnect(p) ==
    /\ pc[p] = "cn_connect"
    /\ \/ IF loc[p].todo = << >> THEN Finish(p, "ok", loc[p])
          ELSE Goto(p, "cn_geoadd") /\ UNCHANGED loc
       \/ Finish(p, "err", [loc[p] EXCEPT !.cacheFailed = TRUE])
    /\ UNCHANGED <<now, GroupVars, NearbyVars, UserVars, RateVars, GeoVars, IndexVars, SideVars>>

CacheNearbyGeoAdd(p) ==
    /\ pc[p] = "cn_geoadd"
    /\ \/ /\ entityGeo' = EntityGeoAdd(loc[p].kind, Head(loc[p].todo))
          /\ Goto(p, "cn_set")
          /\ UNCHANGED loc
       \/ /\ UNCHANGED entityGeo
          /\ Finish(p, "err", [loc[p] EXCEPT !.cacheFailed = TRUE])
    /\ UNCHANGED <<now, GroupVars, NearbyVars, UserVars, RateVars, GeoVars, entityCache, SideVars>>

CacheNearbySet(p) ==
    /\ pc[p] = "cn_set"
    /\ \/ /\ entityCache' = EntityCacheSet(loc[p].kind, Head(loc[p].todo))
          /\ IF Tail(loc[p].todo) = << >>
             THEN Finish(p, "ok", [loc[p] EXCEPT !.todo = << >>])
             ELSE /\ loc' = [loc EXCEPT ![p].todo = Tail(@)]
                  /\ Goto(p, "cn_geoadd")
       \/ /\ UNCHANGED entityCache
          /\ Finish(p, "err", [loc[p] EXCEPT !.cacheFailed = TRUE])
    /\ UNCHANGED <<now, GroupVars, NearbyVars, UserVars, RateVars, GeoVars, entityGeo, SideVars>>

\* update_user_location(user_id, latitude, longitude): one GEOADD on users:geo
StartUpdateUserLocation(p, lats) ==
    /\ pc[p] = "idle"
    /\ \E u \in Users, latitude \in lats :
        loc' = [loc EXCEPT ![p] = [Idle0 EXCEPT !.op = "update_user_location",
                                      !.kind = "user", !.u = u, !.lat = latitude]]
    /\ Goto(p, "uu_geoadd")
    /\ UNCHANGED <<now, GroupVars, NearbyVars, UserVars, RateVars, GeoVars, IndexVars, SideVars>>

\* a GEOADD users:geo NX, which leaves the position of a member it finds
UpdateUserLocationGeoAdd_nx(p) ==
    /\ pc[p] = "uu_geoadd"
    /\ \/ /\ entityGeo' = IF loc[p].u \in DOMAIN entityGeo["user"] THEN entityGeo
                          ELSE EntityGeoAdd("user", [id |-> loc[p].u, lat |-> loc[p].lat])
          /\ Finish(p, "ok", loc[p])
       \/ /\ UNCHANGED entityGeo
          /\ Finish(p, "err", [loc[p] EXCEPT !.cacheFailed = TRUE])
    /\ UNCHANGED <<now, GroupVars, NearbyVars, UserVars, RateVars, GeoVars, entityCache, SideVars>>

UpdateUserLocationGeoAdd(p) ==
    /\ pc[p] = "uu_geoadd"
    /\ \/ /\ entityGeo' = EntityGeoAdd("user", [id |-> loc[p].u, lat |-> loc[p].lat])
          /\ Finish(p, "ok", loc[p])
       \/ \* no connection, or the GEOADD fails
          /\ UNCHANGED entityGeo
          /\ Finish(p, "err", [loc[p] EXCEPT !.cacheFailed = TRUE])
    /\ UNCHANGED <<now, GroupVars, NearbyVars, UserVars, RateVars, GeoVars, entityCache, SideVars>>

CacheNearbySteps(p) ==
    \/ CacheNearbyConnect(p)
    \/ CacheNearbyGeoAdd(p)
    \/ CacheNearbySet(p)

\* find_nearby_users_geo / find_nearby_activities_geo(latitude, longitude, radius)
StartFindNearbyGeo(p, op, lats, radii) ==
    /\ pc[p] = "idle"
    /\ \E latitude \in lats, radius \in radii :
        loc' = [loc EXCEPT ![p] = [Idle0 EXCEPT !.op = op, !.kind = KindOf(op),
                                      !.lat = latitude, !.radius = radius,
                                      !.gone = Deleted]]
    /\ Goto(p, "fg_connect")
    /\ UNCHANGED <<now, GroupVars, NearbyVars, UserVars, RateVars, GeoVars, IndexVars, SideVars>>

FindNearbyGeoConnect(p) ==
    /\ pc[p] = "fg_connect"
    /\ \/ Goto(p, "fg_radius") /\ UNCHANGED loc
       \/ \* no connection: return Vec::new()
          Finish(p, "ok", [loc[p] EXCEPT !.cacheFailed = TRUE])
    /\ UNCHANGED <<now, GroupVars, NearbyVars, UserVars, RateVars, GeoVars, IndexVars, SideVars>>

\* GEORADIUS <kind>:geo <lon> <lat> <radius> km WITHDIST: the members within
\* radius kilometres, each with its distance in kilometres to four decimals
\* (distance over per)
EntityGeoRadius(kind, lat, radius) ==
    {[id |-> m, lat |-> entityGeo[kind][m],
      distance |-> calculate_distance(lat, entityGeo[kind][m]) * 10, per |-> 10000] :
        m \in {i \in DOMAIN entityGeo[kind] :
                  WithinRadius(lat, entityGeo[kind][i], radius * 1000)}}

FindNearbyGeoRadius(p) ==
    /\ pc[p] = "fg_radius"
    /\ \/ IF EntityGeoRadius(loc[p].kind, loc[p].lat, loc[p].radius) = {}
          THEN Finish(p, "ok", loc[p])
          ELSE /\ loc' = [loc EXCEPT ![p].todo =
                             SeqOf(EntityGeoRadius(loc[p].kind, loc[p].lat, loc[p].radius))]
               /\ Goto(p, "fg_get")
       \/ \* the command fails: logged, the empty list is returned
          Finish(p, "ok", [loc[p] EXCEPT !.cacheFailed = TRUE])
    /\ UNCHANGED <<now, GroupVars, NearbyVars, UserVars, RateVars, GeoVars, IndexVars, SideVars>>

\* one turn of the loop: GET the snapshot of the next id; a hit is pushed with
\* the distance of the reply, a miss or a failed GET is skipped
FindNearbyGeoGet(p) ==
    /\ pc[p] = "fg_get"
    /\ LET e == Head(loc[p].todo)
           after(l) == IF Tail(loc[p].todo) = << >>
                       THEN Finish(p, "ok", [l EXCEPT !.todo = << >>])
                       ELSE /\ loc' = [loc EXCEPT ![p] = [l EXCEPT !.todo = Tail(@)]]
                            /\ UNCHANGED pc
       IN \/ /\ EntityCached(loc[p].kind, e.id)
             /\ after([loc[p] EXCEPT !.list =
                          Append(@, [e EXCEPT !.lat = entityCache[loc[p].kind][e.id].val])])
          \/ /\ ~EntityCached(loc[p].kind, e.id)
             /\ after(loc[p])
          \/ after(loc[p])
    /\ UNCHANGED <<now, GroupVars, NearbyVars, UserVars, RateVars, GeoVars, IndexVars, SideVars>>

FindNearbyGeoSteps(p) ==
    \/ FindNearbyGeoConnect(p)
    \/ FindNearbyGeoRadius(p)
    \/ FindNearbyGeoGet(p)

-----------------------------------------------------------------------------
Init ==
    /\ now = 0
    /\ member_count = [g \in Groups |-> 1]
    /\ group_members = [m \in Groups \X Users |-> IF m[2] = "u0" THEN 1 ELSE 0]
    /\ groupIdCache = [g \in Groups |-> NoEntry]
    /\ lastCommit = [g \in Groups |-> Never]
    /\ user_activities = << >>
    /\ user_locations = << >>
    /\ activitySeq = 0
    /\ resultCache = [k \in {} |-> NoEntry]
    /\ nickname = [u \in Users |-> "anon"]
    /\ userInfoCache = [u \in Users |-> NoEntry]
    /\ rateLimit = NoCounter
    /\ groups = <<[id |-> "g1", lat |-> 40008]>>
    /\ geoIndex = NoIndex
    /\ indexed = {}
    /\ entityGeo = [k \in Kinds |-> << >>]
    /\ entityCache = [k \in Kinds |-> << >>]
    /\ cachedLatitude = [g \in Groups |-> 0]
    /\ messages = << >>
    /\ messageCache = [g \in Groups |-> NoEntry]
    /\ sessionCache = [s \in Sessions |-> NoEntry]
    /\ sessionRemoved = [s \in Sessions |-> FALSE]
    /\ pc = [p \in Procs |-> "idle"]
    /\ loc = [p \in Procs |-> Idle0]

\* time passes; Redis drops the keys whose TTL has run out
Tick(step, max) ==
    /\ now + step <= max
    /\ now' = now + step
    /\ groupIdCache' = Expire(groupIdCache, now + step)
    /\ userInfoCache' = Expire(userInfoCache, now + step)
    /\ resultCache' = [k \in {j \in DOMAIN resultCache : resultCache[j].exp > now + step}
                          |-> resultCache[k]]
    /\ rateLimit' = IF rateLimit.exp # -1 /\ rateLimit.exp <= now + step
                     THEN NoCounter ELSE rateLimit
    /\ geoIndex' = IF geoIndex.exp # -1 /\ geoIndex.exp <= now + step
                    THEN NoIndex ELSE geoIndex
    /\ entityCache' = [k \in Kinds |->
          [i \in {j \in DOMAIN entityCache[k] : entityCache[k][j].exp > now + step}
              |-> entityCache[k][i]]]
    /\ messageCache' = Expire(messageCache, now + step)
    /\ sessionCache' = Expire(sessionCache, now + step)
    /\ UNCHANGED <<member_count, group_members, lastCommit, user_activities,
                   user_locations, activitySeq, nickname, groups, indexed, entityGeo,
                   cachedLatitude, messages, sessionRemoved, pc, loc>>

GroupTickAction == Tick(GroupTick, GroupMaxTime)

NearbyTickAction == Tick(NearbyTick, NearbyMaxTime)

GeoTickAction == Tick(GeoTick, GeoMaxTime)

-----------------------------------------------------------------------------
(* MessageInfo::create and MessageInfo::get_messages: the messages table   *)
(* (ids in order of created_at, newest first) and the key msg:group:<id>   *)

StartCreateMessage(p) ==
    /\ pc[p] = "idle"
    /\ Len(messages) < MaxMessages
    /\ \E g \in Groups, u \in Users :
        loc' = [loc EXCEPT ![p] = [Idle0 EXCEPT !.op = "create_message", !.g = g, !.u = u]]
    /\ Goto(p, "mc_member")
    /\ UNCHANGED <<now, GroupVars, NearbyVars, UserVars, RateVars, GeoVars, IndexVars, SideVars>>

\* SELECT EXISTS(... group_members ...)
CreateMessageMember(p) ==
    /\ pc[p] = "mc_member"
    /\ \/ /\ IsMember(loc[p].g, loc[p].u)
          /\ Goto(p, "mc_insert")
          /\ UNCHANGED loc
       \/ /\ ~IsMember(loc[p].g, loc[p].u)
          /\ Finish(p, "err", loc[p])
       \/ Finish(p, "err", [loc[p] EXCEPT !.storeFailed = TRUE])
    /\ UNCHANGED <<now, GroupVars, NearbyVars, UserVars, RateVars, GeoVars, IndexVars, SideVars>>

CreateMessageInsert(p) ==
    /\ pc[p] = "mc_insert"
    /\ \/ /\ Len(messages) < MaxMessages
          /\ messages' = <<Len(messages) + 1>> \o messages
          /\ Goto(p, "mc_del")
          /\ UNCHANGED loc
       \/ /\ UNCHANGED messages
          /\ Finish(p, "err", [loc[p] EXCEPT !.storeFailed = TRUE])
    /\ UNCHANGED <<now, GroupVars, NearbyVars, UserVars, RateVars, GeoVars, IndexVars,
                   cachedLatitude, messageCache, SessionVars>>

\* DEL msg:group:<id>; no connection or a failed DEL is ignored
CreateMessageDel(p) ==
    /\ pc[p] = "mc_del"
    /\ \/ /\ messageCache' = [messageCache EXCEPT ![loc[p].g] = NoEntry]
          /\ Finish(p, "ok", loc[p])
       \/ /\ UNCHANGED messageCache
          /\ Finish(p, "ok", [loc[p] EXCEPT !.cacheFailed = TRUE])
    /\ UNCHANGED <<now, GroupVars, NearbyVars, UserVars, RateVars, GeoVars, IndexVars,
                   cachedLatitude, messages, SessionVars>>

CreateMessageSteps(p) ==
    \/ CreateMessageMember(p)
    \/ CreateMessageInsert(p)
    \/ CreateMessageDel(p)

\* req.limit.and_then(|v| Some(v.min(100).max(-100))).unwrap_or(50)
ClampLimit(limit) ==
    IF limit = None THEN 50
    ELSE LET v == limit[1]
             lo == IF v < 100 THEN v ELSE 100
         IN IF lo > -100 THEN lo ELSE -100

\* the three SELECTs of get_messages, each ORDER BY created_at DESC LIMIT n
SelectMessages(message_id, limit) ==
    LET n == Abs(limit) IN
    IF message_id = None THEN Take(messages, n)
    ELSE IF \A i \in 1..Len(messages) : messages[i] # message_id[1] THEN << >>
    ELSE IF limit >= 0
         THEN Take(SelectSeq(messages, LAMBDA m : m >= message_id[1]), n)
         ELSE Take(SelectSeq(messages, LAMBDA m : m <= message_id[1]), n)

StartGetMessages(p, limits, ids) ==
    /\ pc[p] = "idle"
    /\ \E g \in Groups, u \in Users, limit \in limits, message_id \in ids :
        loc' = [loc EXCEPT ![p] = [Idle0 EXCEPT !.op = "get_messages", !.g = g, !.u = u,
                    !.requested = limit, !.message_id = message_id]]
    /\ Goto(p, "gm_member")
    /\ UNCHANGED <<now, GroupVars, NearbyVars, UserVars, RateVars, GeoVars, IndexVars, SideVars>>

GetMessagesMember(p) ==
    /\ pc[p] = "gm_member"
    /\ \/ /\ IsMember(loc[p].g, loc[p].u)
          /\ loc' = [loc EXCEPT ![p].limit = ClampLimit(loc[p].requested)]
          /\ IF loc[p].message_id = None /\ Abs(ClampLimit(loc[p].requested)) <= 50
             THEN Goto(p, "gm_get")
             ELSE Goto(p, "gm_select")
       \/ /\ ~IsMember(loc[p].g, loc[p].u)
          /\ Finish(p, "err", loc[p])
       \/ Finish(p, "err", [loc[p] EXCEPT !.storeFailed = TRUE])
    /\ UNCHANGED <<now, GroupVars, NearbyVars, UserVars, RateVars, GeoVars, IndexVars, SideVars>>

\* a hit that ignores the limit of the call that filled the key
GetMessagesGet(p) ==
    /\ pc[p] = "gm_get"
    /\ \/ /\ Alive(messageCache[loc[p].g])
          /\ Finish(p, "ok", [loc[p] EXCEPT !.list = messageCache[loc[p].g].val,
                                             !.age = now - messageCache[loc[p].g].setAt])
       \/ /\ ~Alive(messageCache[loc[p].g])
          /\ Goto(p, "gm_select")
          /\ UNCHANGED loc
       \/ \* no connection, or the GET fails
          /\ loc' = [loc EXCEPT ![p].cacheFailed = TRUE]
          /\ Goto(p, "gm_select")
    /\ UNCHANGED <<now, GroupVars, NearbyVars, UserVars, RateVars, GeoVars, IndexVars, SideVars>>

GetMessagesSelect(p) ==
    /\ pc[p] = "gm_select"
    /\ \/ LET l == [loc[p] EXCEPT !.list = SelectMessages(loc[p].message_id, loc[p].limit)]
          IN IF loc[p].message_id = None /\ Abs(loc[p].limit) <= 50
             THEN /\ loc' = [loc EXCEPT ![p] = l]
                  /\ Goto(p, "gm_set")
             ELSE Finish(p, "ok", l)
       \/ Finish(p, "err", [loc[p] EXCEPT !.storeFailed = TRUE])
    /\ UNCHANGED <<now, GroupVars, NearbyVars, UserVars, RateVars, GeoVars, IndexVars, SideVars>>

\* SETEX msg:group:<id>; no connection or a failed SETEX is ignored
GetMessagesSet(p) ==
    /\ pc[p] = "gm_set"
    /\ \/ /\ messageCache' = [messageCache EXCEPT ![loc[p].g] =
                                   SetEx(loc[p].list, MESSAGE_CACHE_EXPIRE)]
          /\ Finish(p, "ok", loc[p])
       \/ /\ UNCHANGED messageCache
          /\ Finish(p, "ok", [loc[p] EXCEPT !.cacheFailed = TRUE])
    /\ UNCHANGED <<now, GroupVars, NearbyVars, UserVars, RateVars, GeoVars, IndexVars,
                   cachedLatitude, messages, SessionVars>>

GetMessagesSteps(p) ==
    \/ GetMessagesMember(p)
    \/ GetMessagesGet(p)
    \/ GetMessagesSelect(p)
    \/ GetMessagesSet(p)

-----------------------------------------------------------------------------
(* SessionCacheOperations: cache_session, get_session, remove_session and  *)
(* refresh_session on the keys session:<id>                                 *)

StartCacheSession(p, ttls) ==
    /\ pc[p] = "idle"
    /\ \E s \in Sessions, u \in Callers, ttl \in ttls :
        /\ loc' = [loc EXCEPT ![p] = [Idle0 EXCEPT !.op = "cache_session", !.s = s,
                                      !.u = u, !.ttl = ttl]]
        /\ sessionRemoved' = [sessionRemoved EXCEPT ![s] = FALSE]
    /\ Goto(p, "cs_set")
    /\ UNCHANGED <<now, GroupVars, NearbyVars, UserVars, RateVars, GeoVars, IndexVars,
                   cachedLatitude, messages, messageCache, sessionCache>>

\* cache_session: SETEX session:<id>, called by a caller or by refresh_session
CacheSessionSet(p) ==
    /\ pc[p] = "cs_set"
    /\ \/ /\ sessionCache' = [sessionCache EXCEPT ![loc[p].s] = SetEx(loc[p].u, loc[p].ttl)]
          /\ sessionRemoved' = IF loc[p].op = "cache_session"
                                THEN [sessionRemoved EXCEPT ![loc[p].s] = FALSE]
                                ELSE sessionRemoved
          /\ Finish(p, "ok", loc[p])
       \/ \* no connection, or the SETEX fails
          /\ UNCHANGED SessionVars
          /\ Finish(p, "err", [loc[p] EXCEPT !.cacheFailed = TRUE])
    /\ UNCHANGED <<now, GroupVars, NearbyVars, UserVars, RateVars, GeoVars, IndexVars,
                   cachedLatitude, messages, messageCache>>

StartGetSession(p) ==
    /\ pc[p] = "idle"
    /\ \E s \in Sessions :
        loc' = [loc EXCEPT ![p] = [Idle0 EXCEPT !.op = "get_session", !.s = s]]
    /\ Goto(p, "gs_get")
    /\ UNCHANGED <<now, GroupVars, NearbyVars, UserVars, RateVars, GeoVars, IndexVars, SideVars>>

StartRefreshSession(p, ttls) ==
    /\ pc[p] = "idle"
    /\ \E s \in Sessions, ttl \in ttls :
        loc' = [loc EXCEPT ![p] = [Idle0 EXCEPT !.op = "refresh_session", !.s = s,
                                      !.ttl = ttl]]
    /\ Goto(p, "gs_get")
    /\ UNCHANGED <<now, GroupVars, NearbyVars, UserVars, RateVars, GeoVars, IndexVars, SideVars>>

\* get_session: GET session:<id>, called by a caller or by refresh_session;
\* late (ghost): the session was removed, and not cached by a caller since,
\* when the GET ran
GetSessionGet(p) ==
    /\ pc[p] = "gs_get"
    /\ LET e == sessionCache[loc[p].s]
           found == IF Alive(e) THEN Some(e.val) ELSE None
           l == [loc[p] EXCEPT !.session = found, !.late = sessionRemoved[loc[p].s]]
       IN \/ IF loc[p].op = "get_session" THEN Finish(p, "ok", l)
             ELSE IF found = None
                  THEN Finish(p, "err", l)
                  ELSE /\ loc' = [loc EXCEPT ![p] = [l EXCEPT !.u = e.val]]
                       /\ Goto(p, "cs_set")
          \/ \* no connection, or the GET fails
             Finish(p, "err", [loc[p] EXCEPT !.cacheFailed = TRUE])
    /\ UNCHANGED <<now, GroupVars, NearbyVars, UserVars, RateVars, GeoVars, IndexVars, SideVars>>

StartRemoveSession(p) ==
    /\ pc[p] = "idle"
    /\ \E s \in Sessions :
        loc' = [loc EXCEPT ![p] = [Idle0 EXCEPT !.op = "remove_session", !.s = s]]
    /\ Goto(p, "rs_del")
    /\ UNCHANGED <<now, GroupVars, NearbyVars, UserVars, RateVars, GeoVars, IndexVars, SideVars>>

\* remove_session: DEL session:<id>
RemoveSessionDel(p) ==
    /\ pc[p] = "rs_del"
    /\ \/ /\ sessionCache' = [sessionCache EXCEPT ![loc[p].s] = NoEntry]
          /\ sessionRemoved' = [sessionRemoved EXCEPT ![loc[p].s] = TRUE]
          /\ Finish(p, "ok", loc[p])
       \/ \* no connection, or the DEL fails
          /\ UNCHANGED SessionVars
          /\ Finish(p, "err", [loc[p] EXCEPT !.cacheFailed = TRUE])
    /\ UNCHANGED <<now, GroupVars, NearbyVars, UserVars, RateVars, GeoVars, IndexVars,
                   cachedLatitude, messages, messageCache>>

SessionSteps(p) ==
    \/ CacheSessionSet(p)
    \/ GetSessionGet(p)
    \/ RemoveSessionDel(p)

FindByIdSteps(p) ==
    \/ FindGet(p)
    \/ FindSelect(p)
    \/ FindSet(p)

JoinSteps(p) ==
    \/ JoinExists(p)
    \/ JoinBegin(p)
    \/ JoinInsert(p)
    \/ JoinUpdate(p)
    \/ JoinCommit(p)
    \/ JoinInvalidate(p)

LeaveSteps(p) ==
    \/ LeaveExists(p)
    \/ LeaveBegin(p)
    \/ LeaveDelete(p)
    \/ LeaveUpdate(p)
    \/ LeaveCommit(p)
    \/ LeaveInvalidate(p)

AddUserSteps(p) ==
    \/ AddUserFind(p)
    \/ AddUserHasUser(p)
    \/ AddUserTouch(p)
    \/ AddUserInsert(p)
    \/ AddUserUpdate(p)

(* Readers of a group racing with membership mutations, over time *)
NextRace ==
    \/ GroupTickAction
    \/ \E p \in Readers : StartFindById(p)
    \/ \E p \in Writers : StartJoin(p) \/ StartLeave(p)
    \/ \E p \in Procs :
        \/ FindByIdSteps(p)
        \/ JoinSteps(p)
        \/ LeaveSteps(p)
        \/ Return(p)

SpecRace == Init /\ [][NextRace]_vars

(* Membership mutations with failing statements and dropped requests *)
NextTx ==
    \E p \in Procs :
        \/ StartJoin(p)
        \/ StartLeave(p)
        \/ StartAddUser(p)
        \/ FindByIdSteps(p)
        \/ JoinSteps(p)
        \/ LeaveSteps(p)
        \/ AddUserSteps(p)
        \/ Abort(p)
        \/ Return(p)

SpecTx == Init /\ [][NextTx]_vars

(* The four membership mutations racing, each statement able to fail *)
NextMembers ==
    \E p \in Procs :
        \/ StartJoin(p)
        \/ StartLeave(p)
        \/ StartAddUser(p)
        \/ StartRemoveUser(p)
        \/ FindByIdSteps(p)
        \/ JoinSteps(p)
        \/ LeaveSteps(p)
        \/ AddUserSteps(p)
        \/ RemoveUserSteps(p)
        \/ Return(p)

SpecMembers == Init /\ [][NextMembers]_vars

(* Proximity searches racing with activity creation and deletion, over time *)
NextNearby ==
    \/ NearbyTickAction
    \/ \E p \in Readers :
        \/ StartSearch(p, "idle", "find_nearby_users", QueryLats, Radii, Limits)
        \/ StartSearch(p, "idle", "find_recent_activities", QueryLats, Radii, Limits)
    \/ \E p \in Writers :
        \/ StartCreate(p, "idle", EntityLats)
        \/ StartDeleteActivity(p)
    \/ \E p \in Procs :
        \/ SearchSteps(p)
        \/ CreateSteps(p)
        \/ DeleteExec(p)
        \/ Return(p)

SpecNearby == Init /\ [][NextNearby]_vars

(* Requests passing the rate limiter before they reach their handler *)
NextGate ==
    \/ NearbyTickAction
    \/ \E p \in Readers :
        \/ StartRequest(p, {"find_nearby_users", "find_by_location", "create"})
        \/ GateSteps(p)
        \/ StartSearch(p, "admitted", "find_nearby_users", QueryLats, Radii, Limits)
        \/ StartSearch(p, "admitted", "find_by_location", GroupQueryLats, Radii, {None})
        \/ StartCreate(p, "admitted", EntityLats)
        \/ SearchSteps(p)
        \/ CreateSteps(p)
        \/ Return(p)

SpecGate == Init /\ [][NextGate]_vars

(* Concurrent requests of one client address at the rate limiter, over two *)
(* windows                                                                  *)
NextLimit ==
    \/ NearbyTickAction
    \/ \E p \in Procs :
        \/ StartRequest(p, {"find_by_location"})
        \/ GateSteps(p)
        \/ StartSearch(p, "admitted", "find_by_location", GroupQueryLats, Radii, {None})
        \/ SearchSteps(p)
        \/ Return(p)

SpecLimit == Init /\ [][NextLimit]_vars

(* Messages of a group sent and read with several limits *)
NextChat ==
    \E p \in Procs :
        \/ StartCreateMessage(p)
        \/ CreateMessageSteps(p)
        \/ StartGetMessages(p, MessageLimits, MessageIds)
        \/ GetMessagesSteps(p)
        \/ Return(p)

SpecChat == Init /\ [][NextChat]_vars

(* Sessions cached, read, refreshed and removed while their TTL runs *)
NextSession ==
    \/ NearbyTickAction
    \/ \E p \in Procs :
        \/ StartCacheSession(p, SessionTtls)
        \/ StartGetSession(p)
        \/ StartRefreshSession(p, SessionTtls)
        \/ StartRemoveSession(p)
        \/ SessionSteps(p)
        \/ Return(p)

SpecSession == Init /\ [][NextSession]_vars

(* The mutations that touch the cache, next to the reads that fill it *)
NextMut ==
    \/ \E p \in Readers :
        \/ StartSearch(p, "idle", "find_nearby_users", MutLats, Radii, Limits)
    \/ \E p \in Writers :
        \/ StartJoin(p)
        \/ StartLeave(p)
        \/ StartCreate(p, "idle", {lat[1] : lat \in MutLats})
        \/ StartUpdateNickname(p)
    \/ \E p \in Procs :
        \/ SearchSteps(p)
        \/ FindByIdSteps(p)
        \/ JoinSteps(p)
        \/ LeaveSteps(p)
        \/ CreateSteps(p)
        \/ NicknameSteps(p)
        \/ Return(p)

SpecMut == Init /\ [][NextMut]_vars

(* The group snapshot and geo-index operations next to the store search *)
NextGeo ==
    \/ GeoTickAction
    \/ \E p \in Readers :
        \/ StartGetCachedGroup(p)
        \/ StartFindNearbyGroups(p, GeoLats, GeoRadii)
        \/ StartSearch(p, "idle", "find_by_location", GroupQueryLats, Radii, {None})
    \/ \E p \in Writers :
        \/ StartCacheGroup(p)
    \/ \E p \in Procs :
        \/ GroupCacheSteps(p)
        \/ SearchSteps(p)
        \/ Return(p)

SpecGeo == Init /\ [][NextGeo]_vars

(* One search per worker over a store drawn from a few tables: two rows with *)
(* the newer one farther away, one row beyond max_search_radius, a crowd at  *)
(* one place, or none                                                        *)
Crowd == [i \in 1..CrowdSize |-> [id |-> ToString(i), lat |-> 40000]]

Tables ==
    { << >>,
      <<[id |-> "e1", lat |-> 40008], [id |-> "e2", lat |-> 40001]>>,
      <<[id |-> "e3", lat |-> 40050]>>,
      Crowd }

InitQuery ==
    /\ now = 0
    /\ member_count = [g \in Groups |-> 1]
    /\ group_members = [m \in Groups \X Users |-> IF m[2] = "u0" THEN 1 ELSE 0]
    /\ groupIdCache = [g \in Groups |-> NoEntry]
    /\ lastCommit = [g \in Groups |-> Never]
    /\ user_activities \in Tables
    /\ user_locations \in Tables
    /\ activitySeq = 0
    /\ resultCache = [k \in {} |-> NoEntry]
    /\ nickname = [u \in Users |-> "anon"]
    /\ userInfoCache = [u \in Users |-> NoEntry]
    /\ rateLimit = NoCounter
    /\ groups \in Tables
    /\ geoIndex = NoIndex
    /\ indexed = {}
    /\ entityGeo = [k \in Kinds |-> << >>]
    /\ entityCache = [k \in Kinds |-> << >>]
    /\ cachedLatitude = [g \in Groups |-> 0]
    /\ messages = << >>
    /\ messageCache = [g \in Groups |-> NoEntry]
    /\ sessionCache = [s \in Sessions |-> NoEntry]
    /\ sessionRemoved = [s \in Sessions |-> FALSE]
    /\ pc = [p \in Procs |-> "idle"]
    /\ loc = [p \in Procs |-> Idle0]

NextQuery ==
    \/ \E p \in Readers :
        \/ StartSearch(p, "idle", "find_nearby_users", PointLats, PointRadii, PointLimits)
        \/ StartSearch(p, "idle", "find_recent_activities", PointLats, PointRadii, PointLimits)
        \/ StartSearch(p, "idle", "find_by_location", PointLats \ {None}, PointRadii, {None})
        \/ StartDirectSearch(p, "get_nearby_activities",
                             {l[1] : l \in PointLats \ {None}}, PointRadii \ {None},
                             {l[1] : l \in PointLimits \ {None}})
        \/ StartDirectSearch(p, "search_groups_by_location",
                             {l[1] : l \in PointLats \ {None}}, PointRadii, {50})
    \/ \E p \in Writers :
        \* a second client of the same area
        StartSearch(p, "idle", "find_nearby_users", {Some(40004)}, {Some(500)}, PointLimits)
    \/ \E p \in Procs :
        \/ SearchSteps(p)
        \/ DirectSelect(p)

SpecQuery == InitQuery /\ [][NextQuery]_vars

(* The three cached proximity searches while the 120 s of their keys run *)
TtlTickAction == Tick(TtlTick, TtlMaxTime)

NextTtl ==
    \/ TtlTickAction
    \/ \E p \in Readers :
        \/ StartSearch(p, "idle", "find_nearby_users", {Some(40000)}, {None}, {None})
        \/ StartSearch(p, "idle", "find_recent_activities", {Some(40000)}, {None}, {None})
    \/ \E p \in Writers :
        \* a second client
        StartSearch(p, "idle", "find_by_location", {Some(40000)}, {None}, {None})
    \/ \E p \in Procs :
        \/ SearchSteps(p)
        \/ Return(p)

SpecTtl == Init /\ [][NextTtl]_vars

(* Moves of a group and of a user in the geo sets, next to cache_group and *)
(* the radius query of groups:geo                                          *)
MoveLats == {40001, 40002}

NextMove ==
    \/ \E p \in Procs :
        \/ StartCacheGroup(p)
        \/ StartUpdateGroupLocation(p, MoveLats)
        \/ StartUpdateUserLocation(p, MoveLats)
        \/ StartFindNearbyGroups(p, {40000}, GeoRadii)
        \/ CacheGroupSet(p)
        \/ CacheGroupGeoAdd(p)
        \/ CacheGroupExpire(p)
        \/ UpdateLocationSteps(p)
        \/ UpdateUserLocationGeoAdd(p)
        \/ FindNearbyGroupsExpire(p)
        \/ FindNearbyGroupsRadius(p)
        \/ FindNearbyGroupsGet(p)
        \/ Return(p)

SpecMove == Init /\ [][NextMove]_vars

(* The geo sets and snapshots of the three kinds next to the store's rows: *)
(* activities are created and deleted, the cache operations index what    *)
(* the store holds, radius queries read the geo sets                       *)
NextIndex ==
    \/ \E p \in Writers :
        \/ StartCreate(p, "idle", EntityLats)
        \/ StartDeleteActivity(p)
        \/ StartCacheNearby(p, "cache_nearby_users")
        \/ StartCacheNearby(p, "cache_nearby_activities")
        \/ StartCreateActivity(p)
        \/ StartCacheGroup(p)
    \/ \E p \in Readers :
        \/ StartFindNearbyGeo(p, "find_nearby_users_geo", GeoLats, GeoRadiiKm)
        \/ StartFindNearbyGeo(p, "find_nearby_activities_geo", GeoLats, GeoRadiiKm)
        \/ StartFindNearbyGroups(p, GeoLats, GeoRadii)
    \/ \E p \in Procs :
        \/ CreateSteps(p)
        \/ DeleteExec(p)
        \/ CacheNearbySteps(p)
        \/ FindNearbyGeoSteps(p)
        \/ CacheGroupSet(p)
        \/ CacheGroupGeoAdd(p)
        \/ CacheGroupExpire(p)
        \/ FindNearbyGroupsExpire(p)
        \/ FindNearbyGroupsRadius(p)
        \/ FindNearbyGroupsGet(p)
        \/ Return(p)

SpecIndex == Init /\ [][NextIndex]_vars

-----------------------------------------------------------------------------
(* Properties *)

\* a finished call of handler op
Done(p, op) == pc[p] = "done" /\ loc[p].op = op

\* a finished proximity search of process p
SearchDone(p) == pc[p] = "done" /\ loc[p].op \in SearchOps

\* C1: a proximity search that starts after an activity has been deleted from
\* the store never returns that activity's id, also when a result set holding
\* it was cached before the deletion.
C1_DeletedNeverReturned ==
    \A p \in Procs :
        (SearchDone(p) /\ loc[p].outcome = "ok")
        => Ids(loc[p].list) \cap loc[p].gone = {}

\* C4: every entry of the list a proximity search returns lies within the
\* effective radius of the query point of that search, whether the list was
\* computed from the store or served from the result cache.
C4_ResultsWithinRadius ==
    \A p \in Procs :
        (SearchDone(p) /\ loc[p].outcome = "ok")
        => \A i \in 1..Len(loc[p].list) :
              WithinRadius(loc[p].lat, loc[p].list[i].lat, loc[p].radius)

\* C8: a proximity search whose store query failed ends with the
\* INTERNAL_ERROR response and no data, never with a success response.
C8_StoreFailureIsInternalError ==
    \A p \in Procs :
        (SearchDone(p) /\ loc[p].storeFailed)
        => /\ loc[p].resp.code = INTERNAL_ERROR
           /\ loc[p].resp.resp_data = None

\* C8 witness: a nearby-users search has missed the cache and its query failed
C8_Witness ==
    \E p \in Procs :
        /\ SearchDone(p) /\ loc[p].op = "find_nearby_users"
        /\ loc[p].storeFailed
        /\ ~Cached(SearchKey(p))

\* the mutations that touch the cache
CacheMutations == {"join", "leave", "create"}

\* C2 as stated: a mutation issues no cache command for the affected keys
\* before its store write has committed, and none at all when the write did
\* not commit.
C2_NoCacheCommandBeforeCommit ==
    \A p \in Procs :
        loc[p].op \in CacheMutations
        => /\ \A o \in loc[p].ops : o.afterCommit
           /\ (pc[p] = "done" /\ ~loc[p].committed) => loc[p].ops = {}

\* C2: the only cache command a mutation issues before its store write has
\* committed is the SETEX of group:id:<id> by the find_by_id that opens
\* Group::join; every DEL and KEYS of join, leave and create comes after the
\* commit, and a mutation whose write did not commit issues none.
C2_OnlyReadThroughBeforeCommit ==
    \A p \in Procs :
        loc[p].op \in CacheMutations
        => \A o \in loc[p].ops :
              ~o.afterCommit
              => (loc[p].op = "join" /\ o.kind = "SET" /\ o.by = "find_by_id")

\* C2 witness: a join filled group:id:<id> on its way in and dropped it
\* after its commit
C2_Witness ==
    \E p \in Procs :
        /\ Done(p, "join") /\ loc[p].committed
        /\ [kind |-> "SET", by |-> "find_by_id", afterCommit |-> FALSE] \in loc[p].ops
        /\ [kind |-> "DEL", by |-> "join", afterCommit |-> TRUE] \in loc[p].ops

\* the step of a mutation that invalidates or refreshes the cache
RefreshLabels == {"join_invalidate", "leave_invalidate", "create_invalidate", "nick_cache"}

\* C10: when the cache command of a mutation's invalidation or refresh step
\* fails, the step changes nothing in the store and the mutation still
\* returns its success result.
C10_CacheFailureKeepsOutcome ==
    [][\A p \in Procs :
          (pc[p] \in RefreshLabels /\ pc'[p] = "done" /\ loc'[p].cacheFailed)
          => /\ loc'[p].outcome = "ok"
             /\ loc'[p].committed
             /\ loc'[p].op \in {"create", "update_nickname"}
                    => loc'[p].resp.code = SUCCESS
             /\ UNCHANGED <<member_count, group_members, user_activities,
                            user_locations, nickname>>]_vars

\* C10 witness: a join has committed and returned after its DEL failed
C10_Witness ==
    \E p \in Procs :
        /\ Done(p, "join") /\ loc[p].committed /\ loc[p].cacheFailed
        /\ loc[p].ops = {}
        /\ IsMember(loc[p].g, loc[p].u)

\* C9: a proximity search with valid parameters that met a cache failure and
\* no store failure ends with the success response.
C9_CacheFailureNotSurfaced ==
    \A p \in Procs :
        (pc[p] = "done" /\ loc[p].route \in SearchOps /\ loc[p].cacheFailed
            /\ ~loc[p].storeFailed /\ loc[p].outcome \notin {"rejected", "limited"})
        => /\ loc[p].resp.status = 200
           /\ loc[p].resp.code = SUCCESS

\* C5: with the store unchanged and every group put in the index by a
\* cache_group call that completed before the query started, the ids the
\* geo-index path returns for a query are the ids the store's bounding-box
\* search returns for it.
C5_IndexPathAgreesWithFallback ==
    \A p \in Procs :
        (Done(p, "find_nearby_groups") /\ loc[p].outcome = "ok" /\ loc[p].late)
        => Ids(loc[p].list)
             = Ids(SearchResult("find_by_location", loc[p].lat, loc[p].radius, -1))

\* C6: a group snapshot returned from group:id:<id> was written at most
\* GROUP_CACHE_EXPIRE seconds before it was read.
C6_SnapshotNotOlderThanTtl ==
    \A p \in Procs :
        (pc[p] = "done" /\ loc[p].outcome = "ok" /\ loc[p].age # -1
            /\ loc[p].op \in {"get_cached_group", "find_nearby_groups", "find_by_id"})
        => loc[p].age <= GROUP_CACHE_EXPIRE

\* C3: once a join or leave has committed at time t and its invalidation has
\* completed, every find_by_id that starts later than t + 600 s returns the
\* post-mutation member_count, whatever find_by_id calls were in flight while
\* the mutation ran.
C3_StaleAtMostOneTtlAfterCommit ==
    \A p \in Procs :
        (Done(p, "find_by_id") /\ loc[p].outcome = "ok" /\ loc[p].late
            /\ loc[p].seen = lastCommit[loc[p].g].at)
        => loc[p].val = member_count[loc[p].g]

\* C7: the two statements of a membership mutation take effect together or
\* not at all, also when a statement fails or the request is dropped between
\* them.
C7_MutationStatementsAtomic ==
    \A p \in Procs :
        (pc[p] = "done" /\ loc[p].op \in {"join", "leave", "add_user"})
        => loc[p].stmts \in {0, 2}

\* the radius queries on the geo sets of the three kinds
QueryRadiusOps == {"find_nearby_users_geo", "find_nearby_activities_geo", "find_nearby_groups"}

\* C11: a radius query on a geo set that found the index store unreachable, or
\* whose GEORADIUS failed, returns the empty list and no error, for users,
\* activities and groups.
C11_QueryRadiusFailureIsEmpty ==
    \A p \in Procs :
        (pc[p] = "done" /\ loc[p].op \in QueryRadiusOps /\ loc[p].cacheFailed)
        => /\ loc[p].outcome = "ok"
           /\ loc[p].list = << >>

\* C12: a proximity search asked with a radius above max_search_radius is not
\* rejected and returns no entity farther than max_search_radius from the
\* query point, at every entry point.
C12_RadiusClampedToMax ==
    \A p \in Procs :
        (pc[p] = "done" /\ loc[p].op \in SearchOps \cup DirectOps
            /\ loc[p].outcome = "ok"
            /\ loc[p].requested # None /\ loc[p].requested[1] > max_search_radius)
        => \A i \in 1..Len(loc[p].list) :
              WithinRadius(loc[p].lat, loc[p].list[i].lat, max_search_radius)

\* C13: a proximity search with a latitude outside [-90, 90] is rejected with a
\* validation error before any store or cache command is issued, at every
\* entry point: such a request is never at a cache or store step and is
\* finished only as rejected with VALIDATION_ERROR.
C13_InvalidCoordinatesRejected ==
    \A p \in Procs :
        (loc[p].op \in SearchOps \cup DirectOps /\ ~ValidCoordinates(loc[p].lat))
        => /\ pc[p] = "done"
           /\ loc[p].outcome = "rejected"
           /\ loc[p].resp.code = VALIDATION_ERROR


\* C14: the list a proximity search returns is in non-decreasing order of the
\* entities' distance from the query point.
C14_OrderedByDistance ==
    \A p \in Procs :
        (pc[p] = "done" /\ loc[p].op \in SearchOps /\ loc[p].outcome = "ok")
        => \A i, j \in 1..Len(loc[p].list) :
              i < j => calculate_distance(loc[p].lat, loc[p].list[i].lat)
                           <= calculate_distance(loc[p].lat, loc[p].list[j].lat)


\* C15: a proximity search returns at most `limit` results, where limit is 20
\* when the request names none and never more than 50, also when the list is
\* served from the result cache.
C15_AtMostLimitResults ==
    \A p \in Procs :
        (pc[p] = "done" /\ loc[p].op \in SearchOps /\ loc[p].outcome = "ok")
        => /\ Len(loc[p].list) <= 50
           /\ Len(loc[p].list) <= (IF loc[p].op = "find_by_location" THEN 20
                                    ELSE loc[p].limit)


\* C16: the list a nearby-users search returns is the first `limit` of the
\* entities within the radius, taken in order of their exact distance from
\* the query point.
C16_NearestLimitOfInRadius ==
    \A p \in Procs :
        (pc[p] = "done" /\ loc[p].op = "find_nearby_users" /\ loc[p].outcome = "ok")
        => LET inRadius == ST_DWithin(user_locations, loc[p].lat, loc[p].radius)
               nearest == Take(SortByDistance(WithDistance(inRadius, loc[p].lat)),
                               loc[p].limit)
           IN [i \in 1..Len(loc[p].list) |-> loc[p].list[i].id]
                  = [i \in 1..Len(nearest) |-> nearest[i].id]


\* C17: every distance a nearby-users search reports is calculate_distance, in
\* metres, between the caller's own query point and the entity, whether the
\* list came from the result cache or from the store.
C17_DistanceFromQueryPoint ==
    \A p \in Procs :
        (pc[p] = "done" /\ loc[p].op = "find_nearby_users" /\ loc[p].outcome = "ok")
        => \A i \in 1..Len(loc[p].list) :
              loc[p].list[i].distance
                  = calculate_distance(loc[p].lat, loc[p].list[i].lat)


\* C18: the geo set of a kind holds an entry for an entity exactly when the
\* entity is discoverable; for activities, whenever no operation is under way
\* the members of activities:geo are the activities the store holds.
C18_IndexedIffDiscoverable ==
    (\A p \in Procs : pc[p] \in {"idle", "done"})
    => DOMAIN entityGeo["activity"] = Ids(user_activities)

\* C19: when the creation of an activity succeeds, the activity is a member of
\* activities:geo and its snapshot activity:<id> is in the cache.
C19_CreatedIsIndexedAndCached ==
    [][\A p \in Procs :
          (pc[p] # "done" /\ pc'[p] = "done"
              /\ loc'[p].op = "create" /\ loc'[p].outcome = "ok")
          => /\ loc'[p].id \in DOMAIN entityGeo'["activity"]
             /\ loc'[p].id \in DOMAIN entityCache'["activity"]]_vars


\* C20: a nickname change whose UPDATE and cache command both succeed leaves
\* the user's snapshot user:info:<id> holding the new nickname, and no step of
\* the update adds, moves or removes an entry of a geo set.
C20_NicknameRefreshesSnapshotOnly ==
    [][\A p \in Procs :
          /\ (pc[p] \in {"nick_update", "nick_cache"} /\ pc'[p] # pc[p])
                => UNCHANGED <<geoIndex, indexed, entityGeo>>
          /\ (pc[p] = "nick_cache" /\ pc'[p] = "done" /\ ~loc'[p].cacheFailed)
                => /\ loc'[p].outcome = "ok"
                   /\ nickname'[loc[p].u] = loc[p].name
                   /\ now' < userInfoCache'[loc[p].u].exp
                   /\ userInfoCache'[loc[p].u].val = loc[p].name]_vars

\* C20 witness: a nickname change has returned success with the cache
\* available; the store and the snapshot hold the new nickname
C20_Witness ==
    \E p \in Procs :
        /\ Done(p, "update_nickname") /\ loc[p].outcome = "ok" /\ ~loc[p].cacheFailed
        /\ loc[p].name # "anon"
        /\ nickname[loc[p].u] = loc[p].name
        /\ now < userInfoCache[loc[p].u].exp
        /\ userInfoCache[loc[p].u].val = loc[p].name


\* C21: when two update_group_location calls for one group have run
\* concurrently and both have completed, the group's position in groups:geo
\* and the latitude inside its snapshot are those of one and the same call.
C21_IndexAndSnapshotAgree ==
    \A g \in Groups :
        (/\ \A p \in Procs : /\ Done(p, "update_group_location")
                              /\ loc[p].g = g /\ loc[p].outcome = "ok"
         /\ Alive(groupIdCache[g])
         /\ g \in DOMAIN geoIndex.pos)
        => geoIndex.pos[g] = cachedLatitude[g]


C23_ServedWithinTtlOfQuery ==
    \A p \in Procs :
        (SearchDone(p) /\ loc[p].outcome = "ok" /\ loc[p].sinceQuery # -1)
        => loc[p].sinceQuery <= CACHE_EXPIRE

\* C23, amended: a proximity result set is never served more than CACHE_EXPIRE
\* seconds after it was written to the cache, and the read of a search leaves
\* every result-set key, its expiry included, as it was.
C23_ServedWithinTtlOfWrite ==
    [][\A p \in Procs :
          (pc[p] = "search_get" /\ pc'[p] # "search_get")
          => /\ resultCache' = resultCache
             /\ loc'[p].age # -1 => loc'[p].age < CACHE_EXPIRE]_vars

\* C23 witness: a group search has been answered from a key written earlier
C23_Witness ==
    \E p \in Procs :
        /\ Done(p, "find_by_location") /\ loc[p].outcome = "ok"
        /\ loc[p].age > 0 /\ loc[p].list # << >>


\* C24: in every state in which no join, leave, add_user or remove_user call
\* is under way, groups.member_count of every group equals the number of its
\* group_members rows.
C24_CountEqualsRows ==
    (\A p \in Procs : pc[p] \in {"idle", "done"})
    => \A g \in Groups : member_count[g] = MemberRows(g)


\* C25: when UserActivity::create at a latitude returns successfully with the
\* cache available, no nearby-users or nearby-activities result set whose key
\* was built from the same two-decimal bucket is left in the cache.
C25_CreateClearsBucket ==
    [][\A p \in Procs :
          (pc[p] = "create_invalidate" /\ pc'[p] = "done"
              /\ loc'[p].outcome = "ok" /\ ~loc'[p].cacheFailed)
          => \A k \in DOMAIN resultCache' :
                ~(/\ k.prefix \in {"user:loc:", "activity:"}
                  /\ k.lat = Display(Round2(loc[p].lat))
                  /\ k.lon = Display(Round2(Longitude)))]_vars


\* C26: a group that is in groups:geo when update_group_location is called has
\* an entry in groups:geo in every state of that call, also when the call
\* ends with an error between two of its commands.
C26_MoveKeepsEntry ==
    \A p \in Procs :
        (loc[p].op = "update_group_location" /\ pc[p] # "idle" /\ loc[p].wasIndexed)
        => loc[p].g \in DOMAIN geoIndex.pos


C28_CounterKeyHasExpiry ==
    (rateLimit.count > 0 /\ \A p \in Procs : pc[p] # "rl_expire")
    => rateLimit.exp # -1


\* C29: a successful MessageInfo::get_messages returns at most |limit|
\* messages, limit being the requested one clamped to [-100, 100] (50 when
\* absent), also when the answer comes from the key msg:group:<id> that an
\* earlier call with another limit has filled.
C29_AtMostLimitMessages ==
    \A p \in Procs :
        (Done(p, "get_messages") /\ loc[p].outcome = "ok")
        => Len(loc[p].list) <= Abs(loc[p].limit)


\* C30: once remove_session(s) has completed, a get_session(s) whose GET runs
\* before a caller's next cache_session(s) returns None, whatever a concurrent
\* refresh_session(s) does.
C30_RemovedStaysRemoved ==
    \A p \in Procs :
        (Done(p, "get_session") /\ loc[p].outcome = "ok" /\ loc[p].late)
        => loc[p].session = None

====
